---- MODULE Spec2Model ----
(***************************************************************************)
(* Analysis & Simulation Core of cybos-server: the backtest ledger         *)
(* (Portfolio / Position / PairPosition), the TradingSimulator, the        *)
(* BacktestEngine day loop and the PairSignal status store.                *)
(*                                                                         *)
(* Money is an exact integer: rates are given in units of 1/RateDen and    *)
(* every base price is a multiple of RateDen * RateDen, so that every      *)
(* product price * rate of the simulator is a whole number (the rounding   *)
(* of Python floats is not modelled).                                      *)
(***************************************************************************)
EXTENDS Integers, Sequences, FiniteSets, TLC

VARIABLES
    portfolio,      \* the Portfolio object: cash, positions, pair_positions, equity_curve, trades
    simulator,      \* the TradingSimulator: commission_rate, slippage_rate, impact_cost_rate
    clock,          \* the date handed to the next ledger operation
    last,           \* the last operation called, its arguments and the value it returned
    engine,         \* BacktestEngine.run: pc, current_date, signal_idx, sorted_signals, price_data, metrics
    applied,        \* the signals _execute_signal handed to a simulator call: <<index, day, ok>>
    store,          \* the pair_signals table: signal_id -> status
    generator,      \* the SignalGenerator / SpreadAnalyzer: its settings and the position of its loop
    conn,           \* the database the generator reads: pairs, cointegration results, prices, signals
    given,          \* the arguments of the analysis function under call
    monitor         \* the SignalMonitor: its flags, its loop tasks and the calls in flight

vars == <<portfolio, simulator, clock, last, engine, applied, store, generator, conn, given,
          monitor>>

----------------------------------------------------------------------------
(* Bounds and input sets                                                   *)

MaxSteps == 3                  \* ledger operations in one run of Spec
RateDen == 10                  \* rates are written in tenths
InitialCapital == 10000000
Codes == {"X", "Y"}
SingleCodes == {"X"}           \* the instrument of the single-position calls
PairIds == {"P1"}
Prices == {70000, 77000}
Quantities == {10, 100}
\* <<commission_rate, slippage_rate, impact_cost_rate>> in units of 1/RateDen
RateConfigs == {<<0, 0, 0>>, <<1, 1, 1>>}

None == "None"
DefaultHedgeRatio == 1          \* hedge_ratio: float = 1.0
DefaultQuantity == 100         \* signal.get("quantity", 100)

Abs(x) == IF x < 0 THEN -x ELSE x
Max(a, b) == IF a >= b THEN a ELSE b

Put(f, k, v) == [x \in DOMAIN f \cup {k} |-> IF x = k THEN v ELSE f[x]]
Del(f, k) == [x \in DOMAIN f \ {k} |-> f[x]]

RECURSIVE SumOver(_, _)
SumOver(f, S) ==
    IF S = {} THEN 0
    ELSE LET k == CHOOSE x \in S : TRUE IN f[k] + SumOver(f, S \ {k})

----------------------------------------------------------------------------
(* portfolio.py: Position, PairPosition                                    *)

Position(stock_code, quantity, entry_price, entry_date, current_price) ==
    [stock_code |-> stock_code, quantity |-> quantity, entry_price |-> entry_price,
     entry_date |-> entry_date, current_price |-> current_price]

PositionValue(pos) == pos.quantity * pos.current_price
PositionCost(pos) == pos.quantity * pos.entry_price
PositionPnl(pos) == PositionValue(pos) - PositionCost(pos)

\* a percentage is kept as the exact fraction num / den
Pct(num, den) == [num |-> num, den |-> den]
PositionPnlPct(pos) ==
    IF PositionCost(pos) = 0 THEN Pct(0, 1)
    ELSE Pct(PositionPnl(pos) * 100, PositionCost(pos))

PairPosition(pair_id, long_position, short_position, entry_date, hedge_ratio) ==
    [pair_id |-> pair_id, long_position |-> long_position,
     short_position |-> short_position, entry_date |-> entry_date,
     hedge_ratio |-> hedge_ratio]

PairTotalValue(pair) ==
    Abs(PositionValue(pair.long_position)) + Abs(PositionValue(pair.short_position))
PairTotalCost(pair) ==
    Abs(PositionCost(pair.long_position)) + Abs(PositionCost(pair.short_position))
PairNetPnl(pair) == PositionPnl(pair.long_position) + PositionPnl(pair.short_position)
PairNetPnlPct(pair) ==
    IF PairTotalCost(pair) = 0 THEN Pct(0, 1)
    ELSE Pct(PairNetPnl(pair) * 100, PairTotalCost(pair))

----------------------------------------------------------------------------
(* portfolio.py: Portfolio                                                 *)

NewPortfolio(initial_capital) ==
    [initial_capital |-> initial_capital, cash |-> initial_capital,
     positions |-> <<>>, pair_positions |-> <<>>,
     equity_curve |-> <<>>, trades |-> <<>>]

total_position_value(pf) ==
    SumOver([c \in DOMAIN pf.positions |-> PositionValue(pf.positions[c])],
            DOMAIN pf.positions)
total_pair_value(pf) ==
    SumOver([p \in DOMAIN pf.pair_positions |-> PairTotalValue(pf.pair_positions[p])],
            DOMAIN pf.pair_positions)
total_value(pf) == pf.cash + total_position_value(pf) + total_pair_value(pf)

\* an operation's outcome: the value it returns and the portfolio it leaves
Outcome(ok, ret, pf) == [ok |-> ok, ret |-> ret, pf |-> pf]

\* mutant: the cost is debited before the funds check
add_position_debit_first(pf, stock_code, quantity, price, date) ==
    LET cost == Abs(quantity * price)
        debited == [pf EXCEPT !.cash = @ - cost]
    IN IF cost > pf.cash THEN Outcome(FALSE, FALSE, debited)
       ELSE Outcome(TRUE, TRUE,
              [debited EXCEPT !.positions = Put(@, stock_code,
                            Position(stock_code, quantity, price, date, price))])

add_position(pf, stock_code, quantity, price, date) ==
    LET cost == Abs(quantity * price) IN
    IF cost > pf.cash THEN Outcome(FALSE, FALSE, pf)
    ELSE Outcome(TRUE, TRUE,
            [pf EXCEPT !.cash = @ - cost,
                       !.positions = Put(@, stock_code,
                            Position(stock_code, quantity, price, date, price))])

\* mutant: the realized pnl is taken from the last mark, not from the closing price
close_position_marked_pnl(pf, stock_code, price, date) ==
    IF stock_code \notin DOMAIN pf.positions THEN Outcome(FALSE, None, pf)
    ELSE LET position == pf.positions[stock_code]
             proceeds == position.quantity * price
             trade == [stock_code |-> stock_code,
                       quantity |-> position.quantity,
                       entry_price |-> position.entry_price,
                       exit_price |-> price,
                       entry_date |-> position.entry_date,
                       exit_date |-> date,
                       pnl |-> PositionPnl(position),
                       pnl_pct |-> PositionPnlPct(position),
                       holding_days |-> date - position.entry_date]
         IN Outcome(TRUE, trade,
                [pf EXCEPT !.cash = @ + proceeds,
                           !.trades = Append(@, trade),
                           !.positions = Del(@, stock_code)])

close_position(pf, stock_code, price, date) ==
    IF stock_code \notin DOMAIN pf.positions THEN Outcome(FALSE, None, pf)
    ELSE LET position == pf.positions[stock_code]
             proceeds == position.quantity * price
             pnl == proceeds - PositionCost(position)
             trade == [stock_code |-> stock_code,
                       quantity |-> position.quantity,
                       entry_price |-> position.entry_price,
                       exit_price |-> price,
                       entry_date |-> position.entry_date,
                       exit_date |-> date,
                       pnl |-> pnl,
                       pnl_pct |-> PositionPnlPct(position),
                       holding_days |-> date - position.entry_date]
         IN Outcome(TRUE, trade,
                [pf EXCEPT !.cash = @ + proceeds,
                           !.trades = Append(@, trade),
                           !.positions = Del(@, stock_code)])

\* mutant: the long leg is paid for before the combined funds check
add_pair_position_long_first(pf, pair_id, long_code, short_code, long_qty, short_qty, long_price, short_price, date, hedge_ratio) ==
    LET long_cost == long_qty * long_price
        short_cost == Abs(short_qty * short_price)
        total_cost == long_cost + short_cost
        long_paid == [pf EXCEPT !.cash = @ - long_cost]
    IN IF total_cost > pf.cash THEN Outcome(FALSE, FALSE, long_paid)
       ELSE Outcome(TRUE, TRUE,
              [long_paid EXCEPT !.cash = @ - short_cost,
                         !.pair_positions = Put(@, pair_id,
                            PairPosition(pair_id,
                                Position(long_code, long_qty, long_price, date, long_price),
                                Position(short_code, -Abs(short_qty), short_price, date,
                                         short_price),
                                date, hedge_ratio))])

add_pair_position(pf, pair_id, long_code, short_code, long_qty, short_qty, long_price, short_price, date, hedge_ratio) ==
    LET long_cost == long_qty * long_price
        short_cost == Abs(short_qty * short_price)
        total_cost == long_cost + short_cost
    IN IF total_cost > pf.cash THEN Outcome(FALSE, FALSE, pf)
       ELSE Outcome(TRUE, TRUE,
              [pf EXCEPT !.cash = @ - total_cost,
                         !.pair_positions = Put(@, pair_id,
                            PairPosition(pair_id,
                                Position(long_code, long_qty, long_price, date, long_price),
                                Position(short_code, -Abs(short_qty), short_price, date,
                                         short_price),
                                date, hedge_ratio))])

close_pair_position(pf, pair_id, long_price, short_price, date) ==
    IF pair_id \notin DOMAIN pf.pair_positions THEN Outcome(FALSE, None, pf)
    ELSE LET pair == pf.pair_positions[pair_id]
             long_proceeds == pair.long_position.quantity * long_price
             short_proceeds == Abs(pair.short_position.quantity)
                                 * (pair.short_position.entry_price - short_price)
             total_proceeds == long_proceeds + short_proceeds
             trade == [pair_id |-> pair_id,
                       long_code |-> pair.long_position.stock_code,
                       short_code |-> pair.short_position.stock_code,
                       entry_date |-> pair.entry_date,
                       exit_date |-> date,
                       total_cost |-> PairTotalCost(pair),
                       total_proceeds |-> total_proceeds,
                       pnl |-> PairNetPnl(pair),
                       pnl_pct |-> PairNetPnlPct(pair),
                       holding_days |-> date - pair.entry_date]
         IN Outcome(TRUE, trade,
                [pf EXCEPT !.cash = @ + total_proceeds,
                           !.trades = Append(@, trade),
                           !.pair_positions = Del(@, pair_id)])

Mark(pos, prices) ==
    IF pos.stock_code \in DOMAIN prices
    THEN [pos EXCEPT !.current_price = prices[pos.stock_code]]
    ELSE pos

MarkPair(pair, prices) ==
    [pair EXCEPT !.long_position = Mark(pair.long_position, prices),
                 !.short_position = Mark(pair.short_position, prices)]

update_prices(pf, prices, date) ==
    LET marked == [pf EXCEPT
            !.positions = [c \in DOMAIN pf.positions |->
                IF c \in DOMAIN prices
                THEN [pf.positions[c] EXCEPT !.current_price = prices[c]]
                ELSE pf.positions[c]],
            !.pair_positions = [p \in DOMAIN pf.pair_positions |->
                MarkPair(pf.pair_positions[p], prices)]]
    IN [marked EXCEPT !.equity_curve = Append(@, <<date, total_value(marked)>>)]

----------------------------------------------------------------------------
(* simulator.py: TradingSimulator                                          *)

TradingSimulator(commission_rate, slippage_rate, impact_cost_rate) ==
    [commission_rate |-> commission_rate, slippage_rate |-> slippage_rate,
     impact_cost_rate |-> impact_cost_rate]

\* mutant: a sell price below zero is not floored
calculate_execution_price_unfloored(sim, base_price, quantity, is_buy) ==
    LET sign == IF is_buy THEN 1 ELSE -1
        slippage == (base_price * sim.slippage_rate * sign) \div RateDen
        impact == (base_price * sim.impact_cost_rate * sign) \div RateDen
    IN base_price + slippage + impact

calculate_execution_price(sim, base_price, quantity, is_buy) ==
    LET sign == IF is_buy THEN 1 ELSE -1
        slippage == (base_price * sim.slippage_rate * sign) \div RateDen
        impact == (base_price * sim.impact_cost_rate * sign) \div RateDen
        execution_price == base_price + slippage + impact
    IN Max(0, execution_price)

calculate_commission(sim, trade_value) ==
    (trade_value * sim.commission_rate) \div RateDen

execute_long(sim, pf, stock_code, quantity, price, date) ==
    IF quantity <= 0 THEN Outcome(FALSE, "Invalid quantity", pf)
    ELSE
    LET execution_price == calculate_execution_price(sim, price, quantity, TRUE)
        trade_value == quantity * execution_price
        commission == calculate_commission(sim, trade_value)
        total_cost == trade_value + commission
    IN IF total_cost > pf.cash THEN Outcome(FALSE, "Insufficient funds", pf)
       ELSE LET added == add_position(pf, stock_code, quantity, execution_price, date)
            IN IF ~added.ok THEN Outcome(FALSE, "Failed to add position", added.pf)
               ELSE Outcome(TRUE, None, [added.pf EXCEPT !.cash = @ - commission])

execute_short(sim, pf, stock_code, quantity, price, date) ==
    IF quantity <= 0 THEN Outcome(FALSE, "Invalid quantity", pf)
    ELSE
    LET execution_price == calculate_execution_price(sim, price, quantity, FALSE)
        trade_value == quantity * execution_price
        commission == calculate_commission(sim, trade_value)
        margin_required == trade_value + commission
    IN IF margin_required > pf.cash THEN Outcome(FALSE, "Insufficient margin", pf)
       ELSE LET added == add_position(pf, stock_code, -quantity, execution_price, date)
            IN IF ~added.ok THEN Outcome(FALSE, "Failed to add position", added.pf)
               ELSE Outcome(TRUE, None, [added.pf EXCEPT !.cash = @ - margin_required])

execute_pair_trade(sim, pf, pair_id, long_code, short_code, long_qty, short_qty, long_price, short_price, date, hedge_ratio) ==
    IF long_qty <= 0 \/ short_qty <= 0 THEN Outcome(FALSE, "Invalid quantities", pf)
    ELSE
    LET long_exec_price == calculate_execution_price(sim, long_price, long_qty, TRUE)
        short_exec_price == calculate_execution_price(sim, short_price, short_qty, FALSE)
        long_trade_value == long_qty * long_exec_price
        short_trade_value == short_qty * short_exec_price
        long_commission == calculate_commission(sim, long_trade_value)
        short_commission == calculate_commission(sim, short_trade_value)
        total_cost == long_trade_value + short_trade_value
                        + long_commission + short_commission
    IN IF total_cost > pf.cash THEN Outcome(FALSE, "Insufficient funds", pf)
       ELSE LET added == add_pair_position(pf, pair_id, long_code, short_code,
                            long_qty, short_qty, long_exec_price, short_exec_price,
                            date, hedge_ratio)
            IN IF ~added.ok THEN Outcome(FALSE, "Failed to add pair position", added.pf)
               ELSE Outcome(TRUE, None,
                        [added.pf EXCEPT !.cash = @ - (long_commission + short_commission)])

\* trade["commission"] = ...: the dict is the one already appended to portfolio.trades
WithCommission(trade, commission) ==
    [k \in DOMAIN trade \cup {"commission"} |->
        IF k = "commission" THEN commission ELSE trade[k]]

close_pair_trade(sim, pf, pair_id, long_price, short_price, date) ==
    IF pair_id \notin DOMAIN pf.pair_positions
    THEN Outcome(FALSE, "Pair position not found", pf)
    ELSE
    LET pair == pf.pair_positions[pair_id]
        long_exec_price == calculate_execution_price(sim, long_price,
                                pair.long_position.quantity, FALSE)
        short_exec_price == calculate_execution_price(sim, short_price,
                                Abs(pair.short_position.quantity), TRUE)
        long_commission == calculate_commission(sim,
                                pair.long_position.quantity * long_exec_price)
        short_commission == calculate_commission(sim,
                                Abs(pair.short_position.quantity) * short_exec_price)
        closed == close_pair_position(pf, pair_id, long_exec_price, short_exec_price, date)
    IN IF ~closed.ok THEN Outcome(FALSE, "Failed to close pair position", closed.pf)
       ELSE LET trade == WithCommission(closed.ret, long_commission + short_commission)
                n == Len(closed.pf.trades)
            IN Outcome(TRUE, trade,
                  [closed.pf EXCEPT !.cash = @ - (long_commission + short_commission),
                                    !.trades = [@ EXCEPT ![n] = trade]])

----------------------------------------------------------------------------
(* engine.py: BacktestEngine                                               *)

Get(signal, key, default) == IF key \in DOMAIN signal THEN signal[key] ELSE default
Truthy(v) == v # None /\ v # ""

\* sorted(signals, key=lambda x: x["date"]): stable, ascending by date
RECURSIVE InsertByDate(_, _)
InsertByDate(sorted, signal) ==
    IF sorted = <<>> THEN <<signal>>
    ELSE IF sorted[Len(sorted)].date <= signal.date THEN Append(sorted, signal)
    ELSE Append(InsertByDate(SubSeq(sorted, 1, Len(sorted) - 1), signal),
                sorted[Len(sorted)])

RECURSIVE SortByDate(_)
SortByDate(signals) ==
    IF signals = <<>> THEN <<>>
    ELSE InsertByDate(SortByDate(SubSeq(signals, 1, Len(signals) - 1)),
                      signals[Len(signals)])

_get_prices_for_date(price_data, date) ==
    [c \in {x \in DOMAIN price_data : date \in DOMAIN price_data[x]} |->
        price_data[c][date]]

\* what a signal handler did: the simulator call it made ("none" when it returned
\* before calling the simulator) and the portfolio it left
Handled(call, out) == [call |-> call, ok |-> out.ok, pf |-> out.pf]
Skipped(pf) == [call |-> "none", ok |-> FALSE, pf |-> pf]

_execute_pair_entry(sim, pf, signal, current_prices, date) ==
    LET pair_id == Get(signal, "pair_id", None)
        long_code == Get(signal, "long_code", None)
        short_code == Get(signal, "short_code", None)
    IN IF ~(Truthy(pair_id) /\ Truthy(long_code) /\ Truthy(short_code))
       THEN Skipped(pf)
       ELSE IF long_code \notin DOMAIN current_prices
               \/ short_code \notin DOMAIN current_prices
       THEN Skipped(pf)
       ELSE Handled("execute_pair_trade",
                execute_pair_trade(sim, pf, pair_id, long_code, short_code,
                    Get(signal, "long_quantity", DefaultQuantity),
                    Get(signal, "short_quantity", DefaultQuantity),
                    current_prices[long_code], current_prices[short_code], date,
                    Get(signal, "hedge_ratio", DefaultHedgeRatio)))

_execute_pair_exit(sim, pf, signal, current_prices, date) ==
    LET pair_id == Get(signal, "pair_id", None) IN
    IF ~Truthy(pair_id) \/ pair_id \notin DOMAIN pf.pair_positions THEN Skipped(pf)
    ELSE LET pair == pf.pair_positions[pair_id]
             long_code == pair.long_position.stock_code
             short_code == pair.short_position.stock_code
         IN IF long_code \notin DOMAIN current_prices
               \/ short_code \notin DOMAIN current_prices
            THEN Skipped(pf)
            ELSE Handled("close_pair_trade",
                    close_pair_trade(sim, pf, pair_id, current_prices[long_code],
                                     current_prices[short_code], date))

_execute_long(sim, pf, signal, current_prices, date) ==
    LET stock_code == Get(signal, "stock_code", None) IN
    IF ~Truthy(stock_code) \/ stock_code \notin DOMAIN current_prices THEN Skipped(pf)
    ELSE Handled("execute_long",
            execute_long(sim, pf, stock_code, Get(signal, "quantity", DefaultQuantity),
                         current_prices[stock_code], date))

_execute_short(sim, pf, signal, current_prices, date) ==
    LET stock_code == Get(signal, "stock_code", None) IN
    IF ~Truthy(stock_code) \/ stock_code \notin DOMAIN current_prices THEN Skipped(pf)
    ELSE Handled("execute_short",
            execute_short(sim, pf, stock_code, Get(signal, "quantity", DefaultQuantity),
                          current_prices[stock_code], date))

_execute_signal(sim, pf, signal, current_prices, date) ==
    LET signal_type == Get(signal, "signal_type", "") IN
    IF signal_type = "PAIR_ENTRY_LONG"
    THEN _execute_pair_entry(sim, pf, signal, current_prices, date)
    ELSE IF signal_type = "PAIR_EXIT"
    THEN _execute_pair_exit(sim, pf, signal, current_prices, date)
    ELSE IF signal_type = "LONG"
    THEN _execute_long(sim, pf, signal, current_prices, date)
    ELSE IF signal_type = "SHORT"
    THEN _execute_short(sim, pf, signal, current_prices, date)
    ELSE Skipped(pf)

\* metrics.py, calculate_all_metrics: the two entries that count
calculate_all_metrics(equity_curve, trades) ==
    [total_trades |-> Len(trades),
     trading_days |-> IF Len(equity_curve) >= 2
                      THEN equity_curve[Len(equity_curve)][1] - equity_curve[1][1]
                      ELSE 0]

----------------------------------------------------------------------------
(* The ledger specification: any sequence of at most MaxSteps calls of the *)
(* Portfolio and TradingSimulator operations, one per date.                *)

SignedQuantities == Quantities \cup {-q : q \in Quantities}
OrderQuantities == Quantities \cup {0}
PriceMaps == UNION {[S -> Prices] : S \in SUBSET Codes}
\* <<long_code, short_code>> and <<long_qty, short_qty>> of a pair order
PairLegs == {<<"X", "Y">>}
PairQuantities == {<<10, 10>>, <<100, 100>>}
PairOrderQuantities == PairQuantities \cup {<<0, 10>>, <<10, 0>>}

Call(op, args, out) == [op |-> op, args |-> args, ok |-> out.ok, ret |-> out.ret]
NoCall == [op |-> "init", args |-> <<>>, ok |-> TRUE, ret |-> None]

EngineIdle == [pc |-> "idle"]
GeneratorIdle == [pc |-> "idle"]
MonitorIdle == [pc |-> "idle"]

Init ==
    /\ portfolio = NewPortfolio(InitialCapital)
    /\ \E r \in RateConfigs : simulator = TradingSimulator(r[1], r[2], r[3])
    /\ clock = 0
    /\ last = NoCall
    /\ engine = EngineIdle
    /\ applied = <<>>
    /\ store = <<>>
    /\ generator = GeneratorIdle
    /\ conn = <<>>
    /\ given = <<>>
    /\ monitor = MonitorIdle

\* the frame of a ledger call: it returns `out`
Ledger(op, args, out) ==
    /\ clock < MaxSteps
    /\ portfolio' = out.pf
    /\ last' = Call(op, args, out)
    /\ clock' = clock + 1
    /\ UNCHANGED <<monitor, simulator, generator, conn, given, engine, applied, store>>

AddPosition ==
    \E c \in SingleCodes, q \in SignedQuantities, p \in Prices :
        Ledger("add_position", <<c, q, p>>, add_position(portfolio, c, q, p, clock))

ClosePosition ==
    \E c \in SingleCodes, p \in Prices :
        Ledger("close_position", <<c, p>>, close_position(portfolio, c, p, clock))

AddPairPosition ==
    \E id \in PairIds, legs \in PairLegs, qty \in PairQuantities,
       lp \in Prices, sp \in Prices :
        Ledger("add_pair_position", <<id, legs[1], legs[2], qty[1], qty[2], lp, sp>>,
               add_pair_position(portfolio, id, legs[1], legs[2], qty[1], qty[2], lp, sp,
                                 clock, DefaultHedgeRatio))

ClosePairPosition ==
    \E id \in PairIds, lp \in Prices, sp \in Prices :
        Ledger("close_pair_position", <<id, lp, sp>>,
               close_pair_position(portfolio, id, lp, sp, clock))

UpdatePrices ==
    \E prices \in PriceMaps :
        Ledger("update_prices", <<prices>>,
               Outcome(TRUE, None, update_prices(portfolio, prices, clock)))

ExecuteLong ==
    \E c \in SingleCodes, q \in OrderQuantities, p \in Prices :
        Ledger("execute_long", <<c, q, p>>,
               execute_long(simulator, portfolio, c, q, p, clock))

ExecuteShort ==
    \E c \in SingleCodes, q \in OrderQuantities, p \in Prices :
        Ledger("execute_short", <<c, q, p>>,
               execute_short(simulator, portfolio, c, q, p, clock))

ExecutePairTrade ==
    \E id \in PairIds, legs \in PairLegs, qty \in PairOrderQuantities,
       lp \in Prices, sp \in Prices :
        Ledger("execute_pair_trade", <<id, legs[1], legs[2], qty[1], qty[2], lp, sp>>,
               execute_pair_trade(simulator, portfolio, id, legs[1], legs[2], qty[1],
                                  qty[2], lp, sp, clock, DefaultHedgeRatio))

ClosePairTrade ==
    \E id \in PairIds, lp \in Prices, sp \in Prices :
        Ledger("close_pair_trade", <<id, lp, sp>>,
               close_pair_trade(simulator, portfolio, id, lp, sp, clock))

Next ==
    \/ AddPosition
    \/ ClosePosition
    \/ AddPairPosition
    \/ ClosePairPosition
    \/ UpdatePrices
    \/ ExecuteLong
    \/ ExecuteShort
    \/ ExecutePairTrade
    \/ ClosePairTrade

Spec == Init /\ [][Next]_vars

----------------------------------------------------------------------------
(* The engine specification: one BacktestEngine.run over the days          *)
(* FirstDay..LastDay, for every price table and signal list drawn below.   *)

FirstDay == 1
LastDay == 5
MaxSignals == 2
Days == FirstDay..LastDay

\* the close of a day: 70000 until the last day, 77000 on it
PriceAt(d) == IF d < LastDay THEN 70000 ELSE 77000
PricePath(missing) == [d \in Days \ missing |-> PriceAt(d)]
MissingDays == {{}, {FirstDay}}
PriceTables == [Codes -> {PricePath(m) : m \in MissingDays}]

SignalDates == {FirstDay - 1, FirstDay, LastDay, LastDay + 1}
SingleSignal(d, kind, q) ==
    [date |-> d, signal_type |-> kind, stock_code |-> "X", quantity |-> q]
PairSignalAt(d, kind) ==
    [date |-> d, signal_type |-> kind, pair_id |-> "P1", long_code |-> "X",
     short_code |-> "Y", long_quantity |-> 10, short_quantity |-> 10]
EngineSignals ==
    UNION {{SingleSignal(d, "LONG", 100), SingleSignal(d, "LONG", 0),
            SingleSignal(d, "SHORT", 100),
            [date |-> d, signal_type |-> "EXIT_LONG", stock_code |-> "X"],
            PairSignalAt(d, "PAIR_ENTRY_LONG"), PairSignalAt(d, "PAIR_ENTRY_SHORT"),
            [date |-> d, signal_type |-> "PAIR_EXIT", pair_id |-> "P1"]}
           : d \in SignalDates}
SignalLists == UNION {[1..n -> EngineSignals] : n \in 0..MaxSignals}

EngineInit ==
    /\ portfolio = NewPortfolio(InitialCapital)
    /\ \E r \in RateConfigs : simulator = TradingSimulator(r[1], r[2], r[3])
    /\ clock = 0
    /\ last = NoCall
    /\ applied = <<>>
    /\ store = <<>>
    /\ generator = GeneratorIdle
    /\ conn = <<>>
    /\ given = <<>>
    /\ monitor = MonitorIdle
    /\ \E signals \in SignalLists, price_data \in PriceTables :
          engine = [pc |-> "run", signals |-> signals, price_data |-> price_data,
                    start_date |-> FirstDay, end_date |-> LastDay]

\* run, lines 70-75: sort the signals, start at start_date
RunBegin ==
    /\ engine.pc = "run"
    /\ engine' = [pc |-> "day",
                  sorted_signals |-> SortByDate(engine.signals),
                  price_data |-> engine.price_data,
                  start_date |-> engine.start_date, end_date |-> engine.end_date,
                  current_date |-> engine.start_date, signal_idx |-> 0]
    /\ UNCHANGED <<monitor, portfolio, simulator, generator, conn, given, clock, last, applied, store>>

\* run, lines 77-83: the head of the day loop and the mark-to-market
DayMark ==
    /\ engine.pc = "day"
    /\ engine.current_date <= engine.end_date
    /\ LET current_prices == _get_prices_for_date(engine.price_data, engine.current_date)
       IN portfolio' = IF DOMAIN current_prices # {}
                       THEN update_prices(portfolio, current_prices, engine.current_date)
                       ELSE portfolio
    /\ engine' = [engine EXCEPT !.pc = "signals"]
    /\ UNCHANGED <<monitor, simulator, generator, conn, given, clock, last, applied, store>>

NextSignal == engine.sorted_signals[engine.signal_idx + 1]

\* mutant: a failed execution is raised out of run, which ends without a result
SignalExecute_abort_on_failure ==
    /\ engine.pc = "signals"
    /\ engine.signal_idx < Len(engine.sorted_signals)
    /\ NextSignal.date = engine.current_date
    /\ LET current_prices == _get_prices_for_date(engine.price_data, engine.current_date)
       IN \E done \in {_execute_signal(simulator, portfolio, NextSignal, current_prices,
                                        engine.current_date)} :
             /\ portfolio' = done.pf
             /\ applied' = Append(applied, [idx |-> engine.signal_idx + 1,
                                            date |-> engine.current_date,
                                            call |-> done.call, ok |-> done.ok])
             /\ engine' = IF done.call # "none" /\ ~done.ok
                          THEN [engine EXCEPT !.pc = "raised"]
                          ELSE [engine EXCEPT !.signal_idx = @ + 1]
    /\ UNCHANGED <<monitor, simulator, generator, conn, given, clock, last, store>>

\* mutant: the test signal_date == current_date is dropped, so that a signal
\* the loop comes to late is executed on the current day
SignalExecute_late ==
    /\ engine.pc = "signals"
    /\ engine.signal_idx < Len(engine.sorted_signals)
    /\ NextSignal.date <= engine.current_date
    /\ LET current_prices == _get_prices_for_date(engine.price_data, engine.current_date)
       IN \E done \in {_execute_signal(simulator, portfolio, NextSignal, current_prices,
                                        engine.current_date)} :
             /\ portfolio' = done.pf
             /\ applied' = Append(applied, [idx |-> engine.signal_idx + 1,
                                            date |-> engine.current_date,
                                            call |-> done.call, ok |-> done.ok])
    /\ engine' = [engine EXCEPT !.signal_idx = @ + 1]
    /\ UNCHANGED <<monitor, simulator, generator, conn, given, clock, last, store>>

\* run, lines 86-96, signal_date == current_date: hand the signal to _execute_signal
SignalExecute ==
    /\ engine.pc = "signals"
    /\ engine.signal_idx < Len(engine.sorted_signals)
    /\ NextSignal.date = engine.current_date
    /\ LET current_prices == _get_prices_for_date(engine.price_data, engine.current_date)
       IN \E done \in {_execute_signal(simulator, portfolio, NextSignal, current_prices,
                                        engine.current_date)} :
             /\ portfolio' = done.pf
             /\ applied' = Append(applied, [idx |-> engine.signal_idx + 1,
                                            date |-> engine.current_date,
                                            call |-> done.call, ok |-> done.ok])
    /\ engine' = [engine EXCEPT !.signal_idx = @ + 1]
    /\ UNCHANGED <<monitor, simulator, generator, conn, given, clock, last, store>>

\* run, lines 86-96, signal_date < current_date: the signal is passed over
SignalPass ==
    /\ engine.pc = "signals"
    /\ engine.signal_idx < Len(engine.sorted_signals)
    /\ NextSignal.date < engine.current_date
    /\ engine' = [engine EXCEPT !.signal_idx = @ + 1]
    /\ UNCHANGED <<monitor, portfolio, simulator, generator, conn, given, clock, last, applied, store>>

\* run, lines 86-99: the signal loop ends (no signal left, or the next one is later)
DayAdvance ==
    /\ engine.pc = "signals"
    /\ IF engine.signal_idx < Len(engine.sorted_signals)
       THEN NextSignal.date > engine.current_date
       ELSE TRUE
    /\ engine' = [engine EXCEPT !.pc = "day", !.current_date = @ + 1]
    /\ UNCHANGED <<monitor, portfolio, simulator, generator, conn, given, clock, last, applied, store>>

\* run, lines 101-116: past end_date, compute the metrics and return the result
RunFinish ==
    /\ engine.pc = "day"
    /\ engine.current_date > engine.end_date
    /\ engine' = [pc |-> "done",
                  sorted_signals |-> engine.sorted_signals,
                  price_data |-> engine.price_data,
                  start_date |-> engine.start_date, end_date |-> engine.end_date,
                  current_date |-> engine.current_date,
                  signal_idx |-> engine.signal_idx,
                  metrics |-> calculate_all_metrics(portfolio.equity_curve,
                                                    portfolio.trades)]
    /\ UNCHANGED <<monitor, portfolio, simulator, generator, conn, given, clock, last, applied, store>>

EngineNext ==
    \/ RunBegin
    \/ DayMark
    \/ SignalExecute
    \/ SignalPass
    \/ DayAdvance
    \/ RunFinish

EngineSpec == EngineInit /\ [][EngineNext]_vars

----------------------------------------------------------------------------
(* database/models/signal.py and api/routes/signals.py: the status of the  *)
(* stored PairSignals                                                      *)

SignalIds == {"s1", "s2", "s3"}
SignalStatus == {"ACTIVE", "EXECUTED", "CANCELLED", "EXPIRED"}
\* what a PUT request may carry in `status`: any string
RequestStatus == SignalStatus \cup {"DONE"}

\* PairSignal(..., status=SignalStatus.ACTIVE) and SignalTable.insert_signal
insert_signal(table, signal_id) ==
    Put(table, signal_id, [status |-> "ACTIVE", executed_at |-> None])

\* UPDATE pair_signals SET status = ?, executed_at = ? WHERE signal_id = ?
update_signal_status(table, signal_id, status) ==
    IF signal_id \notin DOMAIN table THEN table
    ELSE [table EXCEPT ![signal_id] =
            [status |-> status,
             executed_at |-> IF status = "EXECUTED" THEN "now" ELSE None]]

\* PUT /api/signals/{signal_id}: 404 for an unknown id, 500 (nothing committed)
\* when SignalStatus(request.status) raises
update_signal(table, signal_id, request_status) ==
    IF signal_id \notin DOMAIN table THEN [code |-> 404, table |-> table]
    ELSE IF request_status \notin SignalStatus THEN [code |-> 500, table |-> table]
    ELSE [code |-> 200, table |-> update_signal_status(table, signal_id, request_status)]

\* POST /api/signals/execute
execute_signal(table, signal_id) ==
    IF signal_id \notin DOMAIN table THEN [code |-> 404, table |-> table]
    ELSE [code |-> 200, table |-> update_signal_status(table, signal_id, "EXECUTED")]

SignalInit ==
    /\ portfolio = NewPortfolio(InitialCapital)
    /\ simulator = TradingSimulator(0, 0, 0)
    /\ clock = 0
    /\ last = NoCall
    /\ engine = EngineIdle
    /\ applied = <<>>
    /\ store = <<>>
    /\ generator = GeneratorIdle
    /\ conn = <<>>
    /\ given = <<>>
    /\ monitor = MonitorIdle

SignalFrame == UNCHANGED <<monitor, portfolio, simulator, generator, conn, given, clock, engine, applied>>

InsertSignal ==
    \E id \in SignalIds \ DOMAIN store :
        /\ store' = insert_signal(store, id)
        /\ last' = [op |-> "insert_signal", args |-> <<id>>, ok |-> TRUE, ret |-> None]
        /\ SignalFrame

UpdateSignalStatus ==
    \E id \in SignalIds, status \in SignalStatus :
        /\ store' = update_signal_status(store, id, status)
        /\ last' = [op |-> "update_signal_status", args |-> <<id, status>>,
                    ok |-> TRUE, ret |-> None]
        /\ SignalFrame

UpdateSignal ==
    \E id \in SignalIds, status \in RequestStatus :
        LET r == update_signal(store, id, status) IN
        /\ store' = r.table
        /\ last' = [op |-> "update_signal", args |-> <<id, status>>,
                    ok |-> r.code = 200, ret |-> r.code]
        /\ SignalFrame

ExecuteSignal ==
    \E id \in SignalIds :
        LET r == execute_signal(store, id) IN
        /\ store' = r.table
        /\ last' = [op |-> "execute_signal", args |-> <<id>>,
                    ok |-> r.code = 200, ret |-> r.code]
        /\ SignalFrame

SignalNext ==
    \/ InsertSignal
    \/ UpdateSignalStatus
    \/ UpdateSignal
    \/ ExecuteSignal

SignalSpec == SignalInit /\ [][SignalNext]_vars

----------------------------------------------------------------------------
(* Claims about the ledger (checked under Spec)                            *)

\* the call made by the step, with its arguments
Called(op) == last'.op = op /\ clock' = clock + 1

\* C1: after any sequence of Portfolio operations and TradingSimulator
\* executions starting from cash = initial_capital >= 0, cash is never negative.
C1_CashNeverNegative == portfolio.cash >= 0

\* C2: a pair-trade open never partially commits. When add_pair_position or
\* execute_pair_trade reports failure the whole portfolio (cash, positions, pair
\* positions, trades, equity curve) is what it was before the call; when it
\* reports success both legs are recorded under the pair id, as ordered, and cash
\* has been debited by the combined cost of both legs (plus, for the simulator,
\* the commission of both legs), nothing else having changed.
C2_Step ==
    (Called("add_pair_position") \/ Called("execute_pair_trade")) =>
        LET a == last'.args
            id == a[1]
        IN IF ~last'.ok THEN portfolio' = portfolio
           ELSE /\ id \in DOMAIN portfolio'.pair_positions
                /\ LET pair == portfolio'.pair_positions[id]
                       long_value == pair.long_position.quantity
                                        * pair.long_position.entry_price
                       short_value == (-pair.short_position.quantity)
                                        * pair.short_position.entry_price
                       fees == IF last'.op = "execute_pair_trade"
                               THEN (long_value * simulator.commission_rate) \div RateDen
                                    + (short_value * simulator.commission_rate) \div RateDen
                               ELSE 0
                   IN /\ pair.long_position.stock_code = a[2]
                      /\ pair.short_position.stock_code = a[3]
                      /\ pair.long_position.quantity = a[4]
                      /\ pair.short_position.quantity = -a[5]
                      /\ pair.long_position.entry_date = clock
                      /\ pair.short_position.entry_date = clock
                      /\ last'.op = "add_pair_position" =>
                            /\ pair.long_position.entry_price = a[6]
                            /\ pair.short_position.entry_price = a[7]
                      /\ portfolio'.cash = portfolio.cash - (long_value + short_value + fees)
                /\ portfolio'.positions = portfolio.positions
                /\ portfolio'.trades = portfolio.trades
                /\ portfolio'.equity_curve = portfolio.equity_curve
                /\ \A other \in DOMAIN portfolio.pair_positions \ {id} :
                      /\ other \in DOMAIN portfolio'.pair_positions
                      /\ portfolio'.pair_positions[other] = portfolio.pair_positions[other]

C9_Required(op, q, p) ==
    LET execution_price == calculate_execution_price(simulator, p, q, op = "execute_long")
        trade_value == q * execution_price
    IN trade_value + calculate_commission(simulator, trade_value)

C9_MustFail ==
    LET a == last'.args IN
    CASE last'.op = "add_position" -> Abs(a[2] * a[3]) > portfolio.cash
      [] last'.op \in {"execute_long", "execute_short"} ->
            a[2] <= 0 \/ C9_Required(last'.op, a[2], a[3]) > portfolio.cash
      [] last'.op = "close_position" -> a[1] \notin DOMAIN portfolio.positions
      [] last'.op \in {"close_pair_trade", "close_pair_position"} ->
            a[1] \notin DOMAIN portfolio.pair_positions
      [] OTHER -> FALSE

C9_FailureValue ==
    CASE last'.op = "add_position" -> last'.ret = FALSE
      [] last'.op \in {"close_position", "close_pair_position"} -> last'.ret = None
      [] last'.op = "execute_long" ->
            last'.ret \in {"Invalid quantity", "Insufficient funds"}
      [] last'.op = "execute_short" ->
            last'.ret \in {"Invalid quantity", "Insufficient margin"}
      [] last'.op = "close_pair_trade" -> last'.ret = "Pair position not found"
      [] OTHER -> TRUE

C9_Step ==
    (clock' = clock + 1
     /\ last'.op \in {"add_position", "execute_long", "execute_short", "close_position",
                      "close_pair_trade", "close_pair_position"}) =>
        /\ C9_MustFail <=> ~last'.ok
        /\ ~last'.ok => (portfolio' = portfolio /\ C9_FailureValue)

C9_FailureLeavesLedger == [][C9_Step]_vars

\* C9 witness: add_position was refused for lack of cash while a position is
\* held.
C9_Witness ==
    /\ last.op = "add_position"
    /\ ~last.ok
    /\ portfolio.cash > 0
    /\ portfolio.positions # <<>>

\* C3: a long position opened by add_position(code, q, p0, d0) costs q*p0 of
\* cash; update_prices({code: p1}) then values it at q*p1, so that total value
\* is cash + q*p1 (+ the other holdings) and that value is the point appended to
\* the equity curve; close_position(code, p1, d1) returns a trade whose pnl is
\* q*p1 - q*p0, adds q*p1 to cash, removes the position and appends exactly
\* that one trade to the log.
C3_Step ==
    LET a == last'.args IN
    /\ (Called("add_position") /\ last'.ok /\ a[2] > 0) =>
          /\ portfolio'.cash = portfolio.cash - a[2] * a[3]
          /\ portfolio'.positions[a[1]] = Position(a[1], a[2], a[3], clock, a[3])
          /\ total_value(portfolio') =
                total_value(portfolio)
                - (IF a[1] \in DOMAIN portfolio.positions
                   THEN PositionValue(portfolio.positions[a[1]]) ELSE 0)
    /\ Called("update_prices") =>
          /\ portfolio'.cash = portfolio.cash
          /\ \A c \in DOMAIN portfolio.positions :
                /\ c \in DOMAIN portfolio'.positions
                /\ PositionValue(portfolio'.positions[c]) =
                      portfolio.positions[c].quantity
                        * (IF c \in DOMAIN a[1] THEN a[1][c]
                           ELSE portfolio.positions[c].current_price)
          /\ portfolio'.equity_curve =
                Append(portfolio.equity_curve, <<clock, total_value(portfolio')>>)
    /\ (Called("close_position") /\ last'.ok) =>
          LET pos == portfolio.positions[a[1]]
              q == pos.quantity
          IN /\ last'.ret.pnl = q * a[2] - q * pos.entry_price
             /\ last'.ret.exit_price = a[2]
             /\ portfolio'.cash = portfolio.cash + q * a[2]
             /\ a[1] \notin DOMAIN portfolio'.positions
             /\ portfolio'.trades = Append(portfolio.trades, last'.ret)

C3_OpenMarkClose == [][C3_Step]_vars

\* C3 witness, the worked example: capital 10,000,000, add_position(X, 100,
\* 70000), update_prices({X: 77000}) gives total value 10,700,000, and
\* close_position(X, 77000) a pnl of 700,000.
C3_Witness ==
    /\ last.op = "close_position"
    /\ last.ok
    /\ last.ret.quantity = 100
    /\ last.ret.entry_price = 70000
    /\ last.ret.pnl = 700000
    /\ portfolio.equity_curve = << <<1, 10700000>> >>
    /\ portfolio.cash = 10700000
    /\ portfolio.positions = <<>>
    /\ Len(portfolio.trades) = 1

----------------------------------------------------------------------------
(* Claims about BacktestEngine.run (checked under EngineSpec)              *)

ZeroRates == TradingSimulator(0, 0, 0)
Started == engine.pc \in {"day", "signals", "done"}
PricedOn(code, date) ==
    code \in DOMAIN engine.price_data /\ date \in DOMAIN engine.price_data[code]
CurveDates(pf) == {pf.equity_curve[i][1] : i \in 1..Len(pf.equity_curve)}
SignalCodes(signal) ==
    {signal[k] : k \in {"stock_code", "long_code", "short_code"} \cap DOMAIN signal}

\* C4: a 5-day run with zero cost rates and capital 10,000,000, one entry signal
\* for a single instrument on day 1 (100 shares at 70000) and one exit signal for
\* that instrument on day 5 (price 77000) ends with the position closed, a final
\* total value of 10,700,000, exactly one record in the trade log and
\* metrics["total_trades"] = 1.
C4_Scenario ==
    /\ engine.pc = "done"
    /\ simulator = ZeroRates
    /\ engine.start_date = FirstDay /\ engine.end_date = LastDay
    /\ engine.price_data["X"] = PricePath({})
    /\ Len(engine.sorted_signals) = 2
    /\ engine.sorted_signals[1] = SingleSignal(FirstDay, "LONG", 100)
    /\ engine.sorted_signals[2].date = LastDay
    /\ engine.sorted_signals[2].signal_type # "LONG"
    /\ Get(engine.sorted_signals[2], "stock_code", "X") = "X"

C4_EndToEnd ==
    C4_Scenario =>
        /\ "X" \notin DOMAIN portfolio.positions
        /\ total_value(portfolio) = 10700000
        /\ Len(portfolio.trades) = 1
        /\ engine.metrics.total_trades = 1

\* C5: run marks the portfolio to market and appends exactly one equity-curve
\* point for every simulated day in [start_date, end_date], whether or not
\* price_data holds a price for that day: the curve has one point per day, in
\* strictly increasing date order.
C5_OnePointPerDay ==
    engine.pc = "done" =>
        /\ Len(portfolio.equity_curve) = engine.end_date - engine.start_date + 1
        /\ \A i \in 1..Len(portfolio.equity_curve) :
              portfolio.equity_curve[i][1] = engine.start_date + i - 1

\* C6: a signal is handed to the simulator only on the simulated day equal to
\* its date, a day of [start_date, end_date], and after that day's
\* mark-to-market; only if its instrument (both legs of its pair) has a price on
\* that day; and no signal is handled more than once. So a signal without a
\* price on its day, or dated outside the range, is never applied.
C6_Inv ==
    Started =>
      \A i \in 1..Len(applied) :
        LET e == applied[i]
            signal == engine.sorted_signals[e.idx]
        IN /\ e.date = signal.date
           /\ e.date \in engine.start_date..engine.end_date
           /\ e.date <= engine.current_date
           /\ \A j \in 1..Len(applied) : j # i => applied[j].idx # e.idx
           /\ e.call # "none" =>
                 /\ \A c \in SignalCodes(signal) : PricedOn(c, e.date)
                 /\ e.date \in CurveDates(portfolio)

C6_Step ==
    (Started /\ Len(applied') = Len(applied) + 1) =>
        LET e == applied'[Len(applied')] IN
        e.call # "none" =>
            /\ portfolio.equity_curve # <<>>
            /\ portfolio.equity_curve[Len(portfolio.equity_curve)][1] = e.date
            /\ e.call = "close_pair_trade" =>
                  LET pair == portfolio.pair_positions[NextSignal.pair_id] IN
                  /\ PricedOn(pair.long_position.stock_code, e.date)
                  /\ PricedOn(pair.short_position.stock_code, e.date)

C6_SignalOnItsDayOnly == []C6_Inv /\ [][C6_Step]_vars

\* C6 witness: the run is over; a signal dated the first day was skipped because
\* its instrument had no price that day (it has one on every later day), and a
\* later signal was applied.
C6_Witness ==
    /\ engine.pc = "done"
    /\ Len(applied) = 2
    /\ applied[1].call = "none"
    /\ engine.sorted_signals[applied[1].idx].signal_type = "LONG"
    /\ ~PricedOn("X", applied[1].date)
    /\ PricedOn("X", LastDay)
    /\ applied[2].call # "none" /\ applied[2].ok

\* C7: every signal dated on a simulated day is dispatched by its kind to the
\* matching simulator call; a pair-entry-short signal whose two legs have a
\* price that day and whose cost fits in cash results in an open pair position,
\* as a pair-entry-long signal does.
C7_Call(signal_type) ==
    CASE signal_type \in {"PAIR_ENTRY_LONG", "PAIR_ENTRY_SHORT"} -> "execute_pair_trade"
      [] signal_type = "PAIR_EXIT" -> "close_pair_trade"
      [] signal_type = "LONG" -> "execute_long"
      [] signal_type = "SHORT" -> "execute_short"
      [] OTHER -> "none"

C7_Step ==
    (Started /\ Len(applied') = Len(applied) + 1) =>
        LET e == applied'[Len(applied')]
            signal == NextSignal
            kind == signal.signal_type
        IN /\ (kind \in {"LONG", "SHORT"} /\ PricedOn(signal.stock_code, e.date)) =>
                 e.call = C7_Call(kind)
           /\ (kind = "PAIR_EXIT" /\ signal.pair_id \in DOMAIN portfolio.pair_positions
                /\ PricedOn("X", e.date) /\ PricedOn("Y", e.date)) =>
                 e.call = C7_Call(kind)
           /\ (kind \in {"PAIR_ENTRY_LONG", "PAIR_ENTRY_SHORT"}
                /\ PricedOn(signal.long_code, e.date)
                /\ PricedOn(signal.short_code, e.date)) =>
                 /\ e.call = C7_Call(kind)
                 /\ e.ok => signal.pair_id \in DOMAIN portfolio'.pair_positions

C7_DispatchByKind == [][C7_Step]_vars

\* C8: run terminates and returns its result: every step of the loop brings the
\* end nearer (C8_Rank, the days and signals left, decreases and is never
\* negative), and the loop is left only by returning the result. A failed
\* execution is a value in the log, and it keeps no signal of the same or of a
\* later day from being handled and no later day from being marked: at the end
\* every signal dated in [start_date, end_date] has been handled once and every
\* day with a price is on the equity curve.
C8_Rank ==
    LET days_left == IF engine.pc = "run" THEN engine.end_date - engine.start_date + 1
                     ELSE engine.end_date - engine.current_date + 1
        signals_left == IF engine.pc = "run" THEN Len(engine.signals)
                        ELSE Len(engine.sorted_signals) - engine.signal_idx
    IN CASE engine.pc = "run" -> 2 * days_left + signals_left + 2
         [] engine.pc = "day" -> 2 * days_left + signals_left + 1
         [] engine.pc = "signals" -> 2 * days_left + signals_left
         [] OTHER -> 0

C8_Inv ==
    /\ C8_Rank >= 0
    /\ engine.pc \in {"run", "day", "signals", "done"}
    /\ engine.pc # "done" => C8_Rank > 0
    /\ engine.pc = "done" =>
        /\ engine.current_date = engine.end_date + 1
        /\ DOMAIN engine.metrics = {"total_trades", "trading_days"}
        /\ \A i \in 1..Len(engine.sorted_signals) :
              engine.sorted_signals[i].date \in engine.start_date..engine.end_date =>
                \E j \in 1..Len(applied) : applied[j].idx = i
        /\ \A d \in engine.start_date..engine.end_date :
              (\E c \in Codes : PricedOn(c, d)) => d \in CurveDates(portfolio)

C8_RunTerminates == []C8_Inv /\ [][C8_Rank' < C8_Rank]_vars

\* C8 witness: the run is over; the first signal failed in the simulator and a
\* later one succeeded.
C8_Witness ==
    /\ engine.pc = "done"
    /\ Len(applied) = 2
    /\ applied[1].call # "none" /\ ~applied[1].ok
    /\ applied[2].call # "none" /\ applied[2].ok

----------------------------------------------------------------------------
(* Claims about the signal status (checked under SignalSpec)               *)

\* C10: a PairSignal starts ACTIVE and, under any sequence of status updates,
\* moves only from ACTIVE to EXECUTED, CANCELLED or EXPIRED: once it has left
\* ACTIVE it never becomes ACTIVE again and never changes to another status.
C10_Step ==
    \A id \in DOMAIN store :
        /\ id \in DOMAIN store'
        /\ store[id].status # "ACTIVE" => store'[id].status = store[id].status

C10_StatusNeverReverts ==
    /\ [](\A id \in DOMAIN store : store[id].status \in SignalStatus)
    /\ [][(\A id \in DOMAIN store' \ DOMAIN store : store'[id].status = "ACTIVE")
          /\ C10_Step]_vars

----------------------------------------------------------------------------
(* services/signal_generator/analyzer.py: SpreadAnalyzer                   *)
(*                                                                         *)
(* A spread is a sequence of whole numbers and a threshold a fraction      *)
(* <<numerator, denominator>>. A Z-score is kept exact as sgn * sqrt(num / *)
(* den), or as NaN where numpy yields NaN (the sample standard deviation   *)
(* of a single observation): every comparison with NaN is false.           *)

MaxSpreadLen == 4
SpreadValues == {-1, 0, 1}
Spreads == UNION {[1..n -> SpreadValues] : n \in 0..MaxSpreadLen}
EntryThresholds == {<<1, 1>>, <<3, 2>>}      \* z_score_entry
ExitThresholds == {<<1, 2>>, <<1, 1>>}       \* z_score_exit
MinConfidences == {<<1, 5>>, <<6, 10>>}      \* min_confidence
\* an optional value: None, or the value
Nothing == <<>>
Some(v) == <<v>>
Windows == {Nothing, Some(2)}

NaN == [nan |-> TRUE, sgn |-> 0, num |-> 0, den |-> 1]
Root(sgn, num, den) == [nan |-> FALSE, sgn |-> sgn, num |-> num, den |-> den]
Zero == Root(0, 0, 1)
Sign(x) == IF x > 0 THEN 1 ELSE IF x < 0 THEN -1 ELSE 0
Minus(z) == [z EXCEPT !.sgn = -z.sgn]
NegRat(r) == <<-r[1], r[2]>>

RECURSIVE SumSeq(_)
SumSeq(xs) == IF xs = <<>> THEN 0 ELSE Head(xs) + SumSeq(Tail(xs))
Squares(xs) == [i \in 1..Len(xs) |-> xs[i] * xs[i]]
Products(xs, ys) == [i \in 1..Len(xs) |-> xs[i] * ys[i]]

\* z > r and z < r of Python floats, r a fraction with a positive denominator
Greater(z, r) ==
    /\ ~z.nan
    /\ IF r[1] >= 0
       THEN z.sgn > 0 /\ z.num * r[2] * r[2] > r[1] * r[1] * z.den
       ELSE z.sgn >= 0 \/ z.num * r[2] * r[2] < r[1] * r[1] * z.den
Less(z, r) == Greater(Minus(z), NegRat(r))
GreaterEq(z, r) == ~z.nan /\ ~Less(z, r)
LessEq(z, r) == ~z.nan /\ ~Greater(z, r)

SpreadAnalyzer(lookback_period, z_score_entry, z_score_exit) ==
    [lookback_period |-> lookback_period, z_score_entry |-> z_score_entry,
     z_score_exit |-> z_score_exit]

\* spread[-window:]
Recent(spread, window) ==
    IF window = 0 \/ window >= Len(spread) THEN spread
    ELSE SubSeq(spread, Len(spread) - window + 1, Len(spread))

\* if window is None: window = len(spread)
WindowOf(spread, window) == IF window = Nothing THEN Len(spread) ELSE window[1]

calculate_z_score(spread, window) ==
    IF Len(spread) = 0 THEN Zero
    ELSE LET recent_spread == Recent(spread, WindowOf(spread, window))
             n == Len(recent_spread)
             total == SumSeq(recent_spread)
             \* n * n * (n - 1) * variance(ddof=1)
             spread_sq == n * SumSeq(Squares(recent_spread)) - total * total
             \* n * (current_spread - mean)
             above == n * spread[Len(spread)] - total
         IN IF n = 1 THEN NaN
            ELSE IF spread_sq = 0 THEN Zero
            ELSE Root(Sign(above), above * above * (n - 1), n * spread_sq)

\* the variants of detect_entry_signal and detect_exit_signal that differ at the thresholds
detect_entry_signal_inclusive(analyzer, spread, window) ==
    LET z_score == calculate_z_score(spread, window)
    IN IF GreaterEq(z_score, analyzer.z_score_entry) THEN "SHORT"
       ELSE IF LessEq(z_score, NegRat(analyzer.z_score_entry)) THEN "LONG"
       ELSE None

detect_exit_signal_strict(analyzer, spread, position_type, window) ==
    LET z_score == calculate_z_score(spread, window)
    IN IF position_type = "LONG" THEN Greater(z_score, NegRat(analyzer.z_score_exit))
       ELSE IF position_type = "SHORT" THEN Less(z_score, analyzer.z_score_exit)
       ELSE FALSE

detect_exit_signal_short_strict(analyzer, spread, position_type, window) ==
    LET z_score == calculate_z_score(spread, window)
    IN IF position_type = "LONG" THEN GreaterEq(z_score, NegRat(analyzer.z_score_exit))
       ELSE IF position_type = "SHORT" THEN Less(z_score, analyzer.z_score_exit)
       ELSE FALSE

detect_entry_signal(analyzer, spread, window) ==
    LET z_score == calculate_z_score(spread, window)
    IN IF Greater(z_score, analyzer.z_score_entry) THEN "SHORT"
       ELSE IF Less(z_score, NegRat(analyzer.z_score_entry)) THEN "LONG"
       ELSE None

detect_exit_signal(analyzer, spread, position_type, window) ==
    LET z_score == calculate_z_score(spread, window)
    IN IF position_type = "LONG" THEN GreaterEq(z_score, NegRat(analyzer.z_score_exit))
       ELSE IF position_type = "SHORT" THEN LessEq(z_score, analyzer.z_score_exit)
       ELSE FALSE

\* the statistics the entry signal carries (mean as a fraction)
calculate_spread_stats(spread, window) ==
    LET recent_spread == Recent(spread, WindowOf(spread, window))
    IN [mean |-> <<SumSeq(recent_spread), Len(recent_spread)>>,
        current |-> spread[Len(spread)],
        z_score |-> calculate_z_score(spread, window)]

\* the half-life -ln 2 / ln beta, kept as beta = covariance / variance of the
\* AR(1) regression: "zero" for 0.0, "nan" where numpy yields NaN (one lagged point)
calculate_half_life(spread) ==
    IF Len(spread) < 2 THEN [kind |-> "zero"]
    ELSE LET spread_lag == SubSeq(spread, 1, Len(spread) - 1)
             spread_curr == SubSeq(spread, 2, Len(spread))
             m == Len(spread_lag)
             \* m * (m - 1) * cov(lag, curr) and m * (m - 1) * var(lag)
             covariance == m * SumSeq(Products(spread_lag, spread_curr))
                             - SumSeq(spread_lag) * SumSeq(spread_curr)
             variance == m * SumSeq(Squares(spread_lag))
                           - SumSeq(spread_lag) * SumSeq(spread_lag)
         IN IF m = 1 THEN [kind |-> "nan"]
            ELSE IF variance = 0 THEN [kind |-> "zero"]
            ELSE IF covariance >= variance \/ covariance <= 0 THEN [kind |-> "zero"]
            ELSE [kind |-> "pos", beta |-> <<covariance, variance>>]

\* 2 ^ (-1 / 60) to five places: a half-life exceeds 60 exactly when beta exceeds it
DefaultCeilingBeta == <<98851, 100000>>
Exceeds(half_life, ceiling_beta) ==
    half_life.kind = "pos" /\ half_life.beta[1] * ceiling_beta[2] > ceiling_beta[1] * half_life.beta[2]

is_spread_stable(spread, ceiling_beta) ==
    LET half_life == calculate_half_life(spread)
    IN IF half_life.kind = "zero" THEN FALSE
       ELSE IF Exceeds(half_life, ceiling_beta) THEN FALSE
       ELSE TRUE

\* min(abs(z_score) / 3.0, 1.0) * (1.0 if is_stable else 0.5), as a root
calculate_confidence(spread, z_score) ==
    LET capped == z_score.num >= 9 * z_score.den
        is_stable == is_spread_stable(spread, DefaultCeilingBeta)
        quarter == IF is_stable THEN 1 ELSE 4
    IN IF z_score.nan THEN NaN
       ELSE IF z_score.sgn = 0 THEN Zero
       ELSE IF capped THEN Root(1, 1, quarter)
       ELSE Root(1, z_score.num, 9 * z_score.den * quarter)

----------------------------------------------------------------------------
(* services/signal_generator/generator.py: SignalGenerator, and the tables *)
(* it reads. An exception is a value: Raise(e) or Return(v).               *)

Raise(e) == [exc |-> e, value |-> None]
Return(v) == [exc |-> None, value |-> v]

\* database/models/signal.py: the members of the SignalType enum
SignalType == {"ENTRY_LONG", "ENTRY_SHORT", "EXIT_LONG", "EXIT_SHORT", "STOP_LOSS", "TAKE_PROFIT"}
\* SignalType.<name>: AttributeError for a name the enum does not have
SignalTypeMember(name) ==
    IF name \in SignalType THEN Return([enum |-> TRUE, name |-> name])
    ELSE Raise("AttributeError")
\* signal_type.value: a str read back from the table has no attribute `value`
value_of(signal_type) ==
    IF signal_type.enum THEN Return(signal_type.name) ELSE Raise("AttributeError")

PairSignal(pair_id, stock_codes, signal_type, status, z_score, confidence) ==
    [pair_id |-> pair_id, stock_codes |-> stock_codes, signal_type |-> signal_type,
     status |-> status, z_score |-> z_score, confidence |-> confidence]

\* PairSignal.from_dict(row): signal_type and status stay the str of the row
from_dict(row) ==
    PairSignal(row.pair_id, row.stock_codes, [enum |-> FALSE, name |-> row.signal_type],
               row.status, Zero, Zero)

\* PairTable.get_active_pairs: WHERE status = 'ACTIVE'
get_active_pairs(db) == SelectSeq(db.pairs, LAMBDA pair : pair.status = "ACTIVE")

\* CointegrationTable.get_latest_result: the row of the pair, or None
get_latest_result(db, pair_id) ==
    IF pair_id \in DOMAIN db.cointegration THEN Some(db.cointegration[pair_id]) ELSE Nothing

\* PriceProvider.get(code, windowLength): the most recent closes, oldest first
get_recent_prices(db, stock_code, limit) ==
    IF stock_code \in DOMAIN db.prices THEN Recent(db.prices[stock_code], limit) ELSE <<>>

\* SignalTable.get_active_signals(conn, pair_id)
get_active_signals(db, pair_id) ==
    LET rows == SelectSeq(db.signals,
                          LAMBDA row : row.status = "ACTIVE" /\ row.pair_id = pair_id)
    IN [i \in 1..Len(rows) |-> from_dict(rows[i])]

SignalGenerator(lookback_period, z_score_entry, z_score_exit, min_confidence) ==
    [lookback_period |-> lookback_period, min_confidence |-> min_confidence,
     analyzer |-> SpreadAnalyzer(lookback_period, z_score_entry, z_score_exit)]

\* the dict {stock_code: closes} as the sequence of its items, in insertion order
RECURSIVE _fetch_price_data(_, _, _)
_fetch_price_data(gen, db, stock_codes) ==
    IF stock_codes = <<>> THEN <<>>
    ELSE LET prices == get_recent_prices(db, Head(stock_codes), gen.lookback_period)
             rest == _fetch_price_data(gen, db, Tail(stock_codes))
         IN IF prices # <<>> THEN <<[code |-> Head(stock_codes), prices |-> prices]>> \o rest
            ELSE rest

\* spread -= hedge_ratio * prices of the i-th item (i counted from 0, as in Python):
\* numpy broadcasts a one-element operand and raises ValueError on any other mismatch
RECURSIVE SubtractLegs(_, _, _, _)
SubtractLegs(spread, items, i, hedge_ratios) ==
    IF i >= Len(items) THEN Return(spread)
    ELSE LET hedge_ratio == IF i < Len(hedge_ratios) THEN hedge_ratios[i + 1] ELSE DefaultHedgeRatio
             leg == items[i + 1].prices
         IN IF Len(leg) = Len(spread)
            THEN SubtractLegs([k \in 1..Len(spread) |-> spread[k] - hedge_ratio * leg[k]],
                              items, i + 1, hedge_ratios)
            ELSE IF Len(leg) = 1
            THEN SubtractLegs([k \in 1..Len(spread) |-> spread[k] - hedge_ratio * leg[1]],
                              items, i + 1, hedge_ratios)
            ELSE Raise("ValueError")

_calculate_spread(price_data, hedge_ratios) ==
    IF Len(price_data) < 2 THEN Return(<<>>)
    ELSE SubtractLegs(price_data[1].prices, price_data, 1, hedge_ratios)

\* variant: the entry types are looked up under names the enum has
_create_entry_signal_member(pair, signal_type, z_score, spread_stats, hedge_ratios, price_data) ==
    LET signal_type_enum == IF signal_type = "LONG" THEN SignalTypeMember("ENTRY_LONG")
                            ELSE SignalTypeMember("ENTRY_SHORT")
    IN Return(PairSignal(pair.pair_id, pair.stock_codes, signal_type_enum.value,
                         "ACTIVE", z_score, Zero))

_create_entry_signal(pair, signal_type, z_score, spread_stats, hedge_ratios, price_data) ==
    LET signal_type_enum == IF signal_type = "LONG" THEN SignalTypeMember("PAIR_ENTRY_LONG")
                            ELSE SignalTypeMember("PAIR_ENTRY_SHORT")
    IN IF signal_type_enum.exc # None THEN Raise(signal_type_enum.exc)
       ELSE Return(PairSignal(pair.pair_id, pair.stock_codes, signal_type_enum.value,
                              "ACTIVE", z_score, Zero))

_create_exit_signal(pair, entry_signal, z_score, price_data) ==
    LET signal_type_enum == SignalTypeMember("PAIR_EXIT")
    IN IF signal_type_enum.exc # None THEN Raise(signal_type_enum.exc)
       ELSE Return(PairSignal(pair.pair_id, pair.stock_codes, signal_type_enum.value,
                              "ACTIVE", z_score, Zero))

\* what the try block of generate_signals_for_pair leaves: the list `signals`
\* as appended to so far, and the exception that ended the block (None: no exception)
Tried(signals, exc) == [signals |-> signals, exc |-> exc]

\* the loop over the stored active signals of the pair
RECURSIVE ExitLoop(_, _, _, _, _, _, _)
ExitLoop(gen, pair, spread, z_score, price_data, active_signals, signals) ==
    IF active_signals = <<>> THEN Tried(signals, None)
    ELSE LET active_signal == Head(active_signals)
             position_type == value_of(active_signal.signal_type)
         IN IF position_type.exc # None THEN Tried(signals, position_type.exc)
            ELSE IF detect_exit_signal(gen.analyzer, spread, position_type.value, Some(gen.lookback_period))
            THEN LET exit_signal == _create_exit_signal(pair, active_signal, z_score, price_data)
                 IN IF exit_signal.exc # None THEN Tried(signals, exit_signal.exc)
                    ELSE ExitLoop(gen, pair, spread, z_score, price_data, Tail(active_signals),
                                  Append(signals, exit_signal.value))
            ELSE ExitLoop(gen, pair, spread, z_score, price_data, Tail(active_signals), signals)

\* entry detection, creation of the entry signal, then the confidence gate
EntryPart(gen, pair, spread, z_score, hedge_ratios, price_data) ==
    LET spread_stats == calculate_spread_stats(spread, Nothing)
        entry_signal_type == detect_entry_signal(gen.analyzer, spread, Nothing)
    IN IF entry_signal_type = None THEN Tried(<<>>, None)
       ELSE LET signal == _create_entry_signal(pair, entry_signal_type, z_score, spread_stats,
                                               hedge_ratios, price_data)
                confidence == calculate_confidence(spread, z_score)
            IN IF signal.exc # None THEN Tried(<<>>, signal.exc)
               ELSE IF GreaterEq(confidence, gen.min_confidence)
               THEN Tried(<<[signal.value EXCEPT !.confidence = confidence]>>, None)
               ELSE Tried(<<>>, None)

TryBlock(gen, db, pair) ==
    LET cointegration == get_latest_result(db, pair.pair_id)
    IN IF cointegration = Nothing THEN Tried(<<>>, None)
       ELSE LET hedge_ratios == cointegration[1].hedge_ratios
                price_data == _fetch_price_data(gen, db, pair.stock_codes)
                spread == _calculate_spread(price_data, hedge_ratios)
            IN IF price_data = <<>> THEN Tried(<<>>, None)
               ELSE IF spread.exc # None THEN Tried(<<>>, spread.exc)
               ELSE IF Len(spread.value) < gen.lookback_period THEN Tried(<<>>, None)
               ELSE LET z_score == calculate_z_score(spread.value, Nothing)
                        entered == EntryPart(gen, pair, spread.value, z_score, hedge_ratios, price_data)
                    IN IF entered.exc # None THEN entered
                       ELSE ExitLoop(gen, pair, spread.value, z_score, price_data,
                                     get_active_signals(db, pair.pair_id), entered.signals)

\* the variant without the `except Exception`: the exception leaves the function
generate_signals_for_pair_no_except(gen, db, pair) ==
    LET tried == TryBlock(gen, db, pair)
    IN [signals |-> tried.signals, raised |-> tried.exc]

\* `except Exception` prints and falls through to `return signals`
generate_signals_for_pair(gen, db, pair) ==
    LET tried == TryBlock(gen, db, pair)
    IN [signals |-> tried.signals, raised |-> None]

----------------------------------------------------------------------------
(* The database generate_signals_for_all_pairs reads: up to MaxPairs pairs *)
(* (listed in get_active_pairs' order), each with its cointegration row,   *)
(* the stored closes of its two stocks and its stored signals.             *)

MaxPairs == 2
GenPairIds == <<"PAIR1", "PAIR2", "PAIR3", "PAIR4">>
StockA == <<"A1", "A2", "A3", "A4">>
StockB == <<"B1", "B2", "B3", "B4">>
Lookbacks == {4}

PairCase(status, coint, a, b, stored) ==
    [status |-> status, coint |-> coint, a |-> a, b |-> b, stored |-> stored]

PairCases ==
    { PairCase("ACTIVE", TRUE, <<1, 1, 1, 2>>, <<1, 1, 1, 1>>, <<>>),
      PairCase("ACTIVE", TRUE, <<1, 0, 0, 0, -1>>, <<0, 0, 0, 0, 0>>, <<>>),
      PairCase("ACTIVE", TRUE, <<-1, 0, 0, 0>>, <<0, 0, 0, 0>>, <<"ENTRY_LONG">>),
      PairCase("ACTIVE", TRUE, <<-1, 0, 0, 0>>, <<0, 0, 0, 0>>, <<"ENTRY_SHORT">>),
      PairCase("ACTIVE", TRUE, <<-1, 0, 0, 0>>, <<0, 0, 0, 0>>, <<>>),
      PairCase("ACTIVE", TRUE, <<1, 0, 1, 0>>, <<0, 0, 0, 0>>, <<"ENTRY_LONG">>),
      PairCase("ACTIVE", TRUE, <<0, 0, 0, 1>>, <<0, 0, 0, 0>>, <<"ENTRY_LONG">>),
      PairCase("ACTIVE", FALSE, <<0, 0, 0, 1>>, <<0, 0, 0, 0>>, <<>>),
      PairCase("ACTIVE", TRUE, <<0, 1>>, <<0, 0>>, <<>>),
      PairCase("ACTIVE", TRUE, <<0, 0, 0, 1>>, <<0, 0>>, <<>>),
      PairCase("ACTIVE", TRUE, <<0, 0, 0, 1>>, <<>>, <<>>),
      PairCase("INACTIVE", TRUE, <<0, 0, 0, 1>>, <<0, 0, 0, 0>>, <<>>) }

PairInfo(i, case) ==
    [pair_id |-> GenPairIds[i], stock_codes |-> <<StockA[i], StockB[i]>>, status |-> case.status]

StoredSignals(i, case) ==
    [k \in 1..Len(case.stored) |->
        [pair_id |-> GenPairIds[i], stock_codes |-> <<StockA[i], StockB[i]>>,
         signal_type |-> case.stored[k], status |-> "ACTIVE"]]

RECURSIVE SignalRows(_, _)
SignalRows(cases, i) ==
    IF i > Len(cases) THEN <<>> ELSE StoredSignals(i, cases[i]) \o SignalRows(cases, i + 1)

Database(cases) ==
    LET n == Len(cases)
        index(code) == CHOOSE i \in 1..n : code \in {StockA[i], StockB[i]}
    IN [pairs |-> [i \in 1..n |-> PairInfo(i, cases[i])],
        cointegration |-> [id \in {GenPairIds[i] : i \in {j \in 1..n : cases[j].coint}} |->
                              [hedge_ratios |-> <<DefaultHedgeRatio>>]],
        prices |-> [code \in {StockA[i] : i \in 1..n} \cup {StockB[i] : i \in 1..n} |->
                       IF code = StockA[index(code)] THEN cases[index(code)].a
                       ELSE cases[index(code)].b],
        signals |-> SignalRows(cases, 1)]

Databases == {Database(cases) : cases \in UNION {[1..n -> PairCases] : n \in 0..MaxPairs}}

GeneratorInit ==
    /\ portfolio = NewPortfolio(InitialCapital)
    /\ simulator = TradingSimulator(0, 0, 0)
    /\ clock = 0
    /\ last = NoCall
    /\ engine = EngineIdle
    /\ applied = <<>>
    /\ store = <<>>
    /\ given = <<>>
    /\ monitor = MonitorIdle
    /\ conn \in Databases
    /\ \E lookback_period \in Lookbacks, z_score_entry \in EntryThresholds, z_score_exit \in ExitThresholds, min_confidence \in MinConfidences :
          generator = [pc |-> "call", active_pairs |-> <<>>, index |-> 0, all_signals |-> <<>>,
                       self |-> SignalGenerator(lookback_period, z_score_entry, z_score_exit, min_confidence)]

GeneratorFrame == UNCHANGED <<monitor, portfolio, simulator, clock, last, engine, applied, store, conn, given>>

\* generate_signals_for_all_pairs: active_pairs = PairTable.get_active_pairs(conn)
GenBegin ==
    /\ generator.pc = "call"
    /\ generator' = [generator EXCEPT !.pc = "loop", !.active_pairs = get_active_pairs(conn)]
    /\ GeneratorFrame

\* for pair in active_pairs: all_signals.extend(self.generate_signals_for_pair(conn, pair))
GenPair ==
    /\ generator.pc = "loop"
    /\ generator.index < Len(generator.active_pairs)
    /\ LET pair == generator.active_pairs[generator.index + 1]
           returned == generate_signals_for_pair(generator.self, conn, pair)
       IN generator' = IF returned.raised # None
                       THEN [generator EXCEPT !.pc = "raised"]
                       ELSE [generator EXCEPT !.index = @ + 1,
                                              !.all_signals = @ \o returned.signals]
    /\ GeneratorFrame

\* return all_signals
GenReturn ==
    /\ generator.pc = "loop"
    /\ generator.index = Len(generator.active_pairs)
    /\ generator' = [generator EXCEPT !.pc = "done"]
    /\ GeneratorFrame

GeneratorNext == GenBegin \/ GenPair \/ GenReturn

GeneratorSpec == GeneratorInit /\ [][GeneratorNext]_vars

----------------------------------------------------------------------------
(* Claims about SignalGenerator *)

\* the pairs generate_signals_for_pair has returned for
Processed == IF generator.pc \in {"loop", "done"} THEN 1..generator.index ELSE {}

\* the signals of the batch that name the pair
BatchOf(pair) == SelectSeq(generator.all_signals, LAMBDA signal : signal.pair_id = pair.pair_id)

\* the last lookback_period closes stored for a stock
Closes(stock_code) ==
    IF stock_code \in DOMAIN conn.prices
    THEN Recent(conn.prices[stock_code], generator.self.lookback_period) ELSE <<>>

\* the pair has a cointegration row and lookback_period closes of each of its stocks
HasSpread(pair) ==
    /\ pair.pair_id \in DOMAIN conn.cointegration
    /\ \A k \in DOMAIN pair.stock_codes : Len(Closes(pair.stock_codes[k])) >= generator.self.lookback_period

\* first stock minus hedge ratio times second stock, close by close
SpreadOfPair(pair) ==
    [k \in 1..generator.self.lookback_period |->
        Closes(pair.stock_codes[1])[k] - DefaultHedgeRatio * Closes(pair.stock_codes[2])[k]]

EntryNames(direction) ==
    IF direction = "LONG" THEN {"ENTRY_LONG", "PAIR_ENTRY_LONG"} ELSE {"ENTRY_SHORT", "PAIR_ENTRY_SHORT"}

\* C11: for an active pair with a cointegration row and lookback_period aligned
\* closes per stock, when |Z| exceeds the entry threshold and the confidence is
\* at least min_confidence, the batch returned for the pair holds one entry
\* signal of the pair, ACTIVE, in the direction detect_entry_signal gives.
C11_EntryEmitted ==
    \A i \in Processed :
        LET pair == generator.active_pairs[i]
            spread == SpreadOfPair(pair)
            z_score == calculate_z_score(spread, Nothing)
            entry == generator.self.analyzer.z_score_entry
            direction == detect_entry_signal(generator.self.analyzer, spread, Nothing)
        IN (/\ HasSpread(pair)
            /\ Greater(z_score, entry) \/ Less(z_score, NegRat(entry))
            /\ GreaterEq(calculate_confidence(spread, z_score), generator.self.min_confidence))
           => Len(SelectSeq(BatchOf(pair),
                            LAMBDA signal : /\ signal.status = "ACTIVE"
                                            /\ signal.signal_type.name \in EntryNames(direction))) = 1

ExitNames == {"EXIT_LONG", "EXIT_SHORT", "PAIR_EXIT"}

\* the exit condition of a stored entry signal, on the current Z-score
ExitHolds(row, z_score) ==
    \/ row.signal_type = "ENTRY_LONG" /\ GreaterEq(z_score, NegRat(generator.self.analyzer.z_score_exit))
    \/ row.signal_type = "ENTRY_SHORT" /\ LessEq(z_score, generator.self.analyzer.z_score_exit)

\* C12: for every stored ACTIVE signal of the pair whose exit condition holds
\* (long entry: Z >= -exit threshold, short entry: Z <= +exit threshold) the
\* batch returned for the pair holds one EXIT signal naming the pair.
C12_ExitEmitted ==
    \A i \in Processed :
        LET pair == generator.active_pairs[i]
            z_score == calculate_z_score(SpreadOfPair(pair), Some(generator.self.lookback_period))
            due == SelectSeq(conn.signals,
                             LAMBDA row : /\ row.pair_id = pair.pair_id
                                          /\ row.status = "ACTIVE"
                                          /\ ExitHolds(row, z_score))
        IN HasSpread(pair)
           => Len(SelectSeq(BatchOf(pair), LAMBDA signal : signal.signal_type.name \in ExitNames))
                 = Len(due)

IsPrefix(xs, ys) == Len(xs) <= Len(ys) /\ SubSeq(ys, 1, Len(xs)) = xs

\* the position of a pair among the active pairs
ActiveIndex(pair_id) ==
    CHOOSE i \in 1..Len(generator.active_pairs) : generator.active_pairs[i].pair_id = pair_id

C13_Inv ==
    /\ generator.pc \in {"call", "loop", "done"}
    /\ generator.pc \in {"loop", "done"} =>
          /\ generator.index <= Len(generator.active_pairs)
          /\ \A k \in DOMAIN generator.all_signals :
                \E i \in Processed : generator.active_pairs[i].pair_id = generator.all_signals[k].pair_id
          /\ \A k, l \in DOMAIN generator.all_signals :
                k < l => ActiveIndex(generator.all_signals[k].pair_id)
                            <= ActiveIndex(generator.all_signals[l].pair_id)
          /\ \A i \in Processed :
                LET pair == generator.active_pairs[i]
                IN (~HasSpread(pair) \/ TryBlock(generator.self, conn, pair).exc # None)
                   => BatchOf(pair) = TryBlock(generator.self, conn, pair).signals
    /\ generator.pc = "done" => generator.index = Len(generator.active_pairs)

----------------------------------------------------------------------------
(* Calls of the SpreadAnalyzer functions on every spread up to MaxSpreadLen: *)
(* `given` holds the call last made, its arguments and what it returned.     *)

PositionTypes == {"LONG", "SHORT", "ENTRY_LONG"}

AnalyzerInit ==
    /\ portfolio = NewPortfolio(InitialCapital)
    /\ simulator = TradingSimulator(0, 0, 0)
    /\ clock = 0
    /\ last = NoCall
    /\ engine = EngineIdle
    /\ applied = <<>>
    /\ store = <<>>
    /\ conn = <<>>
    /\ given = [op |-> "init"]
    /\ monitor = MonitorIdle
    /\ \E lookback_period \in Lookbacks, z_score_entry \in EntryThresholds, z_score_exit \in ExitThresholds, min_confidence \in MinConfidences :
          generator = [pc |-> "analyzer",
                       self |-> SignalGenerator(lookback_period, z_score_entry, z_score_exit, min_confidence)]

\* one call, then the function has returned
AnalyzerFrame ==
    /\ generator' = [generator EXCEPT !.pc = "returned"]
    /\ UNCHANGED <<monitor, portfolio, simulator, clock, last, engine, applied, store, conn>>

CalculateZScore ==
    /\ generator.pc = "analyzer"
    /\ \E spread \in Spreads, window \in Windows :
          given' = [op |-> "calculate_z_score", spread |-> spread, window |-> window,
                    ret |-> calculate_z_score(spread, window)]
    /\ AnalyzerFrame

DetectEntrySignal ==
    /\ generator.pc = "analyzer"
    /\ \E spread \in Spreads, window \in Windows :
          given' = [op |-> "detect_entry_signal", spread |-> spread, window |-> window,
                    ret |-> detect_entry_signal(generator.self.analyzer, spread, window)]
    /\ AnalyzerFrame

DetectExitSignal ==
    /\ generator.pc = "analyzer"
    /\ \E spread \in Spreads, window \in Windows, position_type \in PositionTypes :
          given' = [op |-> "detect_exit_signal", spread |-> spread, window |-> window,
                    position_type |-> position_type,
                    ret |-> detect_exit_signal(generator.self.analyzer, spread, position_type, window)]
    /\ AnalyzerFrame

\* generate_signals_for_pair, from the Z-score to the confidence gate, on a
\* spread of at least lookback_period points: `ret` tells whether the entry
\* signal passes the gate `confidence >= self.min_confidence`
EntryGate ==
    /\ generator.pc = "analyzer"
    /\ \E spread \in Spreads :
          /\ Len(spread) >= generator.self.lookback_period
          /\ LET z_score == calculate_z_score(spread, Nothing)
                 entry_signal_type == detect_entry_signal(generator.self.analyzer, spread, Nothing)
                 confidence == calculate_confidence(spread, z_score)
             IN given' = [op |-> "entry_gate", spread |-> spread, window |-> Nothing,
                          entry_signal_type |-> entry_signal_type, confidence |-> confidence,
                          ret |-> /\ entry_signal_type # None
                                  /\ GreaterEq(confidence, generator.self.min_confidence)]
    /\ AnalyzerFrame

AnalyzerNext == CalculateZScore \/ DetectEntrySignal \/ DetectExitSignal \/ EntryGate

AnalyzerSpec == AnalyzerInit /\ [][AnalyzerNext]_vars

Above(z, t) == ~z.nan /\ z.sgn > 0 /\ z.num * t[2] * t[2] > t[1] * t[1] * z.den
Below(z, t) == ~z.nan /\ z.sgn < 0 /\ z.num * t[2] * t[2] > t[1] * t[1] * z.den

Negated(spread) == [k \in DOMAIN spread |-> -spread[k]]
Mirror(signal_type) ==
    IF signal_type = "LONG" THEN "SHORT" ELSE IF signal_type = "SHORT" THEN "LONG" ELSE None

\* C17: negating the spread swaps LONG and SHORT in detect_entry_signal (none
\* stays none), and detect_exit_signal(-s, LONG) equals detect_exit_signal(s, SHORT).
C17_MirrorSymmetry ==
    /\ given.op = "detect_entry_signal" =>
          detect_entry_signal(generator.self.analyzer, Negated(given.spread), given.window)
             = Mirror(given.ret)
    /\ given.op = "detect_exit_signal" /\ given.position_type = "SHORT" =>
          detect_exit_signal(generator.self.analyzer, Negated(given.spread), "LONG", given.window)
             = given.ret
    /\ given.op = "detect_exit_signal" /\ given.position_type = "LONG" =>
          detect_exit_signal(generator.self.analyzer, Negated(given.spread), "SHORT", given.window)
             = given.ret

C17_Witness ==
    /\ given.op = "detect_exit_signal"
    /\ given.position_type = "SHORT"
    /\ ~given.ret
    /\ detect_entry_signal(generator.self.analyzer, given.spread, given.window) = "SHORT"
    /\ detect_entry_signal(generator.self.analyzer, Negated(given.spread), given.window) = "LONG"

----------------------------------------------------------------------------
(* services/backtest_engine/metrics.py: PerformanceMetrics. A float result *)
(* is kept by its kind: 0.0, NaN, an infinity, or another number (profit   *)
(* factor: the fraction itself).                                           *)

MaxCurveLen == 3
MaxTrades == 3
EquityValues == {0, 1, 2}
PnlValues == {-2, -1, 0, 1}
\* the values of an equity curve (the dates play no part in the metrics)
EquityCurves == UNION {[1..n -> EquityValues] : n \in 0..MaxCurveLen}
\* a trade dict with its "pnl", or without the key
TradeDicts == {[pnl |-> x] : x \in PnlValues} \cup {[stock_code |-> "A"]}
TradeLists == UNION {[1..n -> TradeDicts] : n \in 0..MaxTrades}

FloatZero == [kind |-> "zero"]
FloatNaN == [kind |-> "nan"]
FloatInf == [kind |-> "inf"]
FloatNum == [kind |-> "num"]
Ratio(num, den) == IF num = 0 THEN FloatZero ELSE [kind |-> "num", num |-> num, den |-> den]

\* np.diff(values) / values[:-1]: a division by 0.0 gives inf, 0.0 / 0.0 gives NaN
calculate_returns(equity_curve) ==
    IF Len(equity_curve) < 2 THEN <<>>
    ELSE [i \in 1..(Len(equity_curve) - 1) |->
            LET diff == equity_curve[i + 1] - equity_curve[i]
            IN IF equity_curve[i] # 0 THEN [kind |-> "fin", num |-> diff, den |-> equity_curve[i]]
               ELSE IF diff = 0 THEN FloatNaN ELSE FloatInf]

AllFinite(returns) == \A i \in DOMAIN returns : returns[i].kind = "fin"
AllEqual(returns) ==
    \A i, j \in DOMAIN returns : returns[i].num * returns[j].den = returns[j].num * returns[i].den

\* np.std(returns, ddof=1): NaN for one observation and for non-finite input
SampleStd(returns) ==
    IF ~AllFinite(returns) \/ Len(returns) = 1 THEN FloatNaN
    ELSE IF AllEqual(returns) THEN FloatZero
    ELSE FloatNum

sharpe_ratio(returns) ==
    IF Len(returns) = 0 THEN FloatZero
    ELSE LET std_excess == SampleStd(returns)
         IN IF std_excess = FloatZero THEN FloatZero
            ELSE IF std_excess = FloatNaN THEN FloatNaN
            ELSE FloatNum

\* excess_returns < 0: the daily risk-free rate is positive and below every
\* positive return of the curves drawn, so a finite return is below it iff it is <= 0
sortino_ratio(returns) ==
    IF Len(returns) = 0 THEN FloatZero
    ELSE LET downside_returns == SelectSeq(returns, LAMBDA r : r.kind = "fin" /\ r.num <= 0)
             downside_std == SampleStd(downside_returns)
         IN IF Len(downside_returns) = 0 THEN FloatZero
            ELSE IF downside_std = FloatZero THEN FloatZero
            ELSE IF downside_std = FloatNaN THEN FloatNaN
            ELSE IF \E i \in DOMAIN returns : returns[i].kind = "nan" THEN FloatNaN
            ELSE IF \E i \in DOMAIN returns : returns[i].kind = "inf" THEN FloatInf
            ELSE FloatNum

\* max_dd, the first component of the result
max_drawdown(equity_curve) ==
    IF Len(equity_curve) < 2 THEN FloatZero
    ELSE LET cummax(i) == CHOOSE m \in {equity_curve[k] : k \in 1..i} :
                             \A k \in 1..i : equity_curve[k] <= m
         IN IF \E i \in DOMAIN equity_curve : cummax(i) = 0 THEN FloatNaN
            ELSE IF \A i \in DOMAIN equity_curve : equity_curve[i] = cummax(i) THEN FloatZero
            ELSE FloatNum

\* calculate_all_metrics: np.std(returns, ddof=1) * np.sqrt(252) * 100 if len(returns) > 0 else 0.0
volatility(returns) == IF Len(returns) > 0 THEN SampleStd(returns) ELSE FloatZero

Pnls(trades) == [i \in DOMAIN trades |-> Get(trades[i], "pnl", 0)]

\* the variant that reports infinity whenever there is no loss
profit_factor_inf_without_loss(trades) ==
    IF Len(trades) = 0 THEN FloatZero
    ELSE LET total_profit == SumSeq(SelectSeq(Pnls(trades), LAMBDA pnl : pnl > 0))
             total_loss == Abs(SumSeq(SelectSeq(Pnls(trades), LAMBDA pnl : pnl < 0)))
         IN IF total_loss = 0 THEN FloatInf
            ELSE Ratio(total_profit, total_loss)

profit_factor(trades) ==
    IF Len(trades) = 0 THEN FloatZero
    ELSE LET total_profit == SumSeq(SelectSeq(Pnls(trades), LAMBDA pnl : pnl > 0))
             total_loss == Abs(SumSeq(SelectSeq(Pnls(trades), LAMBDA pnl : pnl < 0)))
         IN IF total_loss = 0 THEN (IF total_profit > 0 THEN FloatInf ELSE FloatZero)
            ELSE Ratio(total_profit, total_loss)

CallInit ==
    /\ portfolio = NewPortfolio(InitialCapital)
    /\ simulator = TradingSimulator(0, 0, 0)
    /\ clock = 0
    /\ last = NoCall
    /\ engine = EngineIdle
    /\ applied = <<>>
    /\ store = <<>>
    /\ generator = GeneratorIdle
    /\ conn = <<>>
    /\ given = [op |-> "init"]
    /\ monitor = MonitorIdle

\* one call of a function: `given` holds its arguments and its result
CallFrame ==
    /\ given.op = "init"
    /\ UNCHANGED <<monitor, portfolio, simulator, clock, last, engine, applied, store, generator, conn>>

SharpeRatio ==
    /\ CallFrame
    /\ \E equity_curve \in EquityCurves :
          given' = [op |-> "sharpe_ratio", equity_curve |-> equity_curve, trades |-> <<>>,
                    ret |-> sharpe_ratio(calculate_returns(equity_curve))]

SortinoRatio ==
    /\ CallFrame
    /\ \E equity_curve \in EquityCurves :
          given' = [op |-> "sortino_ratio", equity_curve |-> equity_curve, trades |-> <<>>,
                    ret |-> sortino_ratio(calculate_returns(equity_curve))]

MaxDrawdown ==
    /\ CallFrame
    /\ \E equity_curve \in EquityCurves :
          given' = [op |-> "max_drawdown", equity_curve |-> equity_curve, trades |-> <<>>,
                    ret |-> max_drawdown(equity_curve)]

Volatility ==
    /\ CallFrame
    /\ \E equity_curve \in EquityCurves :
          given' = [op |-> "volatility", equity_curve |-> equity_curve, trades |-> <<>>,
                    ret |-> volatility(calculate_returns(equity_curve))]

ProfitFactor ==
    /\ CallFrame
    /\ \E trades \in TradeLists :
          given' = [op |-> "profit_factor", equity_curve |-> <<>>, trades |-> trades,
                    ret |-> profit_factor(trades)]

MetricsNext == SharpeRatio \/ SortinoRatio \/ MaxDrawdown \/ Volatility \/ ProfitFactor

MetricsSpec == CallInit /\ [][MetricsNext]_vars

\* gross win and gross loss of a trade list, trade by trade
RECURSIVE GrossWin(_)
GrossWin(trades) ==
    IF trades = <<>> THEN 0
    ELSE LET pnl == IF "pnl" \in DOMAIN Head(trades) THEN Head(trades).pnl ELSE 0
         IN (IF pnl > 0 THEN pnl ELSE 0) + GrossWin(Tail(trades))
RECURSIVE GrossLoss(_)
GrossLoss(trades) ==
    IF trades = <<>> THEN 0
    ELSE LET pnl == IF "pnl" \in DOMAIN Head(trades) THEN Head(trades).pnl ELSE 0
         IN (IF pnl < 0 THEN pnl ELSE 0) + GrossLoss(Tail(trades))

\* C18: profit_factor is 0.0 for an empty trade list, infinite only when the
\* summed losses are exactly 0 and the gross win is positive, 0.0 when there
\* are trades but neither wins nor losses, and otherwise the gross win divided
\* by the absolute value of the gross loss.
C18_ProfitFactor ==
    given.op = "profit_factor" =>
        LET win == GrossWin(given.trades)
            loss == GrossLoss(given.trades)
        IN /\ given.trades = <<>> => given.ret.kind = "zero"
           /\ given.ret.kind = "inf" <=> (given.trades # <<>> /\ loss = 0 /\ win > 0)
           /\ (given.trades # <<>> /\ loss = 0 /\ win = 0) => given.ret.kind = "zero"
           /\ (given.trades # <<>> /\ loss # 0) =>
                 IF win = 0 THEN given.ret.kind = "zero"
                 ELSE /\ given.ret.kind = "num"
                      /\ given.ret.num * (-loss) = win * given.ret.den
                      /\ given.ret.num > 0 /\ given.ret.den > 0

\* wins and losses together, and a list of trades that neither win nor lose
C18_Witness ==
    /\ given.op = "profit_factor"
    /\ Len(given.trades) = MaxTrades
    /\ GrossWin(given.trades) > 0
    /\ GrossLoss(given.trades) < -1
    /\ given.ret.kind = "num"

\* an empty, one-point or two-point curve, a curve with a 0 value, constant returns
DegenerateCurve(equity_curve) ==
    \/ Len(equity_curve) <= 2
    \/ \E i \in DOMAIN equity_curve : equity_curve[i] = 0
    \/ LET returns == calculate_returns(equity_curve) IN AllFinite(returns) /\ AllEqual(returns)

\* C19: on degenerate or empty input every metric is 0: never NaN, never
\* infinite; the deviation-based ratios (Sharpe, Sortino, volatility) and the
\* profit factor of an empty trade list are exactly 0.
C19_ZeroOnDegenerate ==
    /\ given.op \in {"sharpe_ratio", "sortino_ratio", "volatility"} /\ DegenerateCurve(given.equity_curve)
          => given.ret.kind = "zero"
    /\ given.op = "max_drawdown" /\ DegenerateCurve(given.equity_curve)
          => given.ret.kind \notin {"nan", "inf"}
    /\ given.op = "profit_factor" /\ given.trades = <<>> => given.ret.kind = "zero"

----------------------------------------------------------------------------
(* services/cointegration_analyzer.py: CointegrationAnalyzer.analyze_pair *)

MinObservations == 30
MaxObs == 31
CointegrationMethod == {"ENGLE_GRANGER", "JOHANSEN"}
Methods == CointegrationMethod \cup {"ADF"}
\* a price series of each length up to MaxObs
PriceSeries == {[i \in 1..n |-> 1 + (i % 2)] : n \in 0..MaxObs}

\* what a test reports about its input: the method and the number of observations used
TestResult(method, prices_a, prices_b) ==
    [method |-> method, sample_size |-> Len(prices_a), other_size |-> Len(prices_b)]

\* the variant that cuts both series to the shorter length before testing
analyze_pair_truncating(prices_a, prices_b, method) ==
    LET min_len == IF Len(prices_a) <= Len(prices_b) THEN Len(prices_a) ELSE Len(prices_b)
    IN IF min_len < MinObservations THEN Raise("ValueError")
       ELSE IF method \in CointegrationMethod
       THEN Return(TestResult(method, SubSeq(prices_a, 1, min_len), SubSeq(prices_b, 1, min_len)))
       ELSE Raise("ValueError")

analyze_pair(prices_a, prices_b, method) ==
    IF Len(prices_a) # Len(prices_b) THEN Raise("ValueError")
    ELSE IF Len(prices_a) < MinObservations THEN Raise("ValueError")
    ELSE IF method = "ENGLE_GRANGER" THEN Return(TestResult(method, prices_a, prices_b))
    ELSE IF method = "JOHANSEN" THEN Return(TestResult(method, prices_a, prices_b))
    ELSE Raise("ValueError")

AnalyzePair ==
    /\ CallFrame
    /\ \E prices_a \in PriceSeries, prices_b \in PriceSeries, method \in Methods :
          given' = [op |-> "analyze_pair", prices_a |-> prices_a, prices_b |-> prices_b,
                    method |-> method, ret |-> analyze_pair(prices_a, prices_b, method)]

CointSpec == CallInit /\ [][AnalyzePair]_vars

\* C20: analyze_pair raises, and returns no result, whenever the two series
\* differ in length or have fewer than 30 observations; a result it returns
\* was computed on the whole of both series.
C20_NoTruncation ==
    given.op = "analyze_pair" =>
        /\ (Len(given.prices_a) # Len(given.prices_b) \/ Len(given.prices_a) < 30 \/ Len(given.prices_b) < 30)
              => given.ret.exc = "ValueError" /\ given.ret.value = None
        /\ given.ret.exc = None
              => /\ given.ret.value.sample_size = Len(given.prices_a)
                 /\ given.ret.value.other_size = Len(given.prices_b)

\* series of unequal lengths, both long enough
C20_Witness ==
    /\ given.op = "analyze_pair"
    /\ Len(given.prices_a) > Len(given.prices_b)
    /\ Len(given.prices_b) >= 30
    /\ given.method = "ENGLE_GRANGER"
    /\ given.ret.exc = "ValueError"

----------------------------------------------------------------------------
(* services/cointegration_analyzer.py: the two-series test and the p-value *)
(* of the Johansen test                                                    *)

Shapes == {"flat1", "flat2", "alternating", "blocks", "blocks3", "step", "sparse", "late"}
\* the i-th price of a series of the given shape (prices 1 and 2)
ShapeAt(shape, i) ==
    CASE shape = "flat1" -> 1
      [] shape = "flat2" -> 2
      [] shape = "alternating" -> 1 + (i % 2)
      [] shape = "blocks" -> 1 + ((i \div 2) % 2)
      [] shape = "blocks3" -> 1 + ((i \div 3) % 2)
      [] shape = "step" -> IF 2 * i <= MinObservations THEN 1 ELSE 2
      [] shape = "sparse" -> IF i % 5 = 0 THEN 2 ELSE 1
      [] shape = "late" -> IF i + 3 > MinObservations THEN 2 ELSE 1
\* the series analyze_pair passes on: MinObservations prices or more
ValidSeries == {[i \in 1..n |-> ShapeAt(shape, i)] : shape \in Shapes, n \in MinObservations..MaxObs}

\* adfuller on a constant series: raises ValueError or returns, depending on
\* the statsmodels release installed
AdfullerOnConstant == {"ValueError", None}

\* covariance / variance_b as a fraction (the factor n * (n - 1) cancels), 1.0 if variance_b is 0
_calculate_hedge_ratio(prices_a, prices_b) ==
    LET n == Len(prices_b)
        covariance == n * SumSeq(Products(prices_a, prices_b)) - SumSeq(prices_a) * SumSeq(prices_b)
        variance_b == n * SumSeq(Squares(prices_b)) - SumSeq(prices_b) * SumSeq(prices_b)
    IN IF variance_b = 0 THEN <<1, 1>> ELSE <<covariance, variance_b>>

\* 0.0 ("zero"), NaN, or -ln 2 / ln beta with beta = covariance / variance in (0, 1)
_calculate_half_life(spread) ==
    IF Len(spread) < 2 THEN [kind |-> "zero"]
    ELSE LET spread_lag == SubSeq(spread, 1, Len(spread) - 1)
             spread_curr == SubSeq(spread, 2, Len(spread))
             m == Len(spread_lag)
             covariance == m * SumSeq(Products(spread_lag, spread_curr))
                             - SumSeq(spread_lag) * SumSeq(spread_curr)
             variance == m * SumSeq(Squares(spread_lag))
                           - SumSeq(spread_lag) * SumSeq(spread_lag)
         IN IF m = 1 THEN [kind |-> "nan"]
            ELSE IF variance = 0 THEN [kind |-> "zero"]
            ELSE IF covariance >= variance \/ covariance <= 0 THEN [kind |-> "zero"]
            ELSE [kind |-> "pos", beta |-> <<covariance, variance>>]

\* the spread prices_a - hedge_ratio * prices_b times the (positive)
\* denominator of hedge_ratio: the half-life does not depend on the scale
_engle_granger_test(prices_a, prices_b, adfuller_on_constant) ==
    LET hedge_ratio == _calculate_hedge_ratio(prices_a, prices_b)
        spread == [k \in DOMAIN prices_a |-> hedge_ratio[2] * prices_a[k] - hedge_ratio[1] * prices_b[k]]
        half_life == _calculate_half_life(spread)
        constant == \A k \in DOMAIN spread : spread[k] = spread[1]
    IN IF constant /\ adfuller_on_constant # None THEN Raise(adfuller_on_constant)
       ELSE Return([method |-> "ENGLE_GRANGER", hedge_ratios |-> <<hedge_ratio>>,
                    half_life |-> half_life, sample_size |-> Len(prices_a)])

\* analyze_pair(prices_a, prices_b) on series that pass its two checks
EngleGrangerTest ==
    /\ CallFrame
    /\ \E prices_a \in ValidSeries, prices_b \in ValidSeries, adfuller_on_constant \in AdfullerOnConstant :
          /\ Len(prices_a) = Len(prices_b)
          /\ given' = [op |-> "_engle_granger_test", prices_a |-> prices_a, prices_b |-> prices_b,
                       ret |-> _engle_granger_test(prices_a, prices_b, adfuller_on_constant)]

IsConstant(prices) == \A k \in DOMAIN prices : prices[k] = prices[1]

\* C21: for length-valid input with a constant series B and any series A the
\* two-series test does not raise and yields hedge ratio 1.0 and half-life 0.0.
C21_NeutralOnConstantB ==
    (given.op = "_engle_granger_test" /\ IsConstant(given.prices_b)) =>
        /\ given.ret.exc = None
        /\ given.ret.value.hedge_ratios = <<(<<1, 1>>)>>
        /\ given.ret.value.half_life.kind = "zero"

MaxStat == 21
\* trace statistics, and rows [90%, 95%, 99%] of the table of critical values (rounded)
TraceStats == 0..MaxStat
CriticalValues == {<<13, 15, 20>>, <<3, 4, 7>>}
SignificanceLevel == {"HIGHLY_SIG", "SIGNIFICANT", "MARGINAL", "NOT_SIG"}

\* the variant with three buckets: nothing above 0.07
_estimate_p_value_from_critical_three(test_stat, critical_values) ==
    IF test_stat > critical_values[3] THEN 5
    ELSE IF test_stat > critical_values[2] THEN 30
    ELSE 70

\* the p-value in thousandths: 0.005, 0.03, 0.07, 0.15
_estimate_p_value_from_critical(test_stat, critical_values) ==
    IF test_stat > critical_values[3] THEN 5
    ELSE IF test_stat > critical_values[2] THEN 30
    ELSE IF test_stat > critical_values[1] THEN 70
    ELSE 150

\* p_value in thousandths
_determine_significance(p_value) ==
    IF p_value < 10 THEN "HIGHLY_SIG"
    ELSE IF p_value < 50 THEN "SIGNIFICANT"
    ELSE IF p_value < 100 THEN "MARGINAL"
    ELSE "NOT_SIG"

\* _johansen_test_2stocks, from the trace statistic to the significance; `seen`
\* collects the p-values reported by the calls made so far
JohansenPValue ==
    /\ given.op \in {"init", "_johansen_test_2stocks"}
    /\ \E test_stat \in TraceStats, critical_values \in CriticalValues :
          LET p_value == _estimate_p_value_from_critical(test_stat, critical_values)
          IN given' = [op |-> "_johansen_test_2stocks", test_stat |-> test_stat,
                       critical_values |-> critical_values, p_value |-> p_value,
                       significance |-> _determine_significance(p_value),
                       seen |-> (IF given.op = "init" THEN {} ELSE given.seen) \cup {p_value}]
    /\ UNCHANGED <<monitor, portfolio, simulator, clock, last, engine, applied, store, generator, conn>>

CointTestNext == EngleGrangerTest \/ JohansenPValue

CointTestSpec == CallInit /\ [][CointTestNext]_vars

\* the class the rule gives a p-value (in thousandths)
RuleClass(p_value) ==
    CASE p_value < 10 -> "HIGHLY_SIG"
      [] p_value >= 10 /\ p_value < 50 -> "SIGNIFICANT"
      [] p_value >= 50 /\ p_value < 100 -> "MARGINAL"
      [] p_value >= 100 -> "NOT_SIG"

\* C22 as claimed: the Johansen p-value takes one of exactly three values,
\* each mapped to its class by the rule.
C22_ThreeBuckets ==
    given.op = "_johansen_test_2stocks" =>
        /\ Cardinality(given.seen) <= 3
        /\ given.significance = RuleClass(given.p_value)

\* C22 as amended: the Johansen p-value is fixed by where the trace statistic
\* lies among the three critical values and takes one of exactly four values
\* (0.005, 0.03, 0.07, 0.15), each mapped to its class by the rule.
C22_FourBuckets ==
    given.op = "_johansen_test_2stocks" =>
        LET cv == given.critical_values
        IN /\ given.seen \subseteq {5, 30, 70, 150}
           /\ given.p_value = 5 <=> given.test_stat > cv[3]
           /\ given.p_value = 30 <=> (given.test_stat > cv[2] /\ given.test_stat <= cv[3])
           /\ given.p_value = 70 <=> (given.test_stat > cv[1] /\ given.test_stat <= cv[2])
           /\ given.p_value = 150 <=> given.test_stat <= cv[1]
           /\ given.significance = RuleClass(given.p_value)

C22_Witness ==
    /\ given.op = "_johansen_test_2stocks"
    /\ given.seen = {5, 30, 70, 150}
    /\ given.significance = "NOT_SIG"

----------------------------------------------------------------------------
(* The simulator specification: any sequence of at most MaxSteps calls of  *)
(* the TradingSimulator operations, for cost rates that reach the floor of *)
(* the sell price (slippage and impact of 0.6 each).                       *)

SimRateConfigs == RateConfigs \cup {<<1, 6, 6>>, <<2, 3, 0>>}

SimulatorInit ==
    /\ portfolio = NewPortfolio(InitialCapital)
    /\ \E r \in SimRateConfigs : simulator = TradingSimulator(r[1], r[2], r[3])
    /\ clock = 0
    /\ last = NoCall
    /\ engine = EngineIdle
    /\ applied = <<>>
    /\ store = <<>>
    /\ generator = GeneratorIdle
    /\ conn = <<>>
    /\ given = <<>>
    /\ monitor = MonitorIdle

SimulatorNext ==
    \/ ExecuteLong
    \/ ExecuteShort
    \/ ExecutePairTrade
    \/ ClosePairTrade

SimulatorSpec == SimulatorInit /\ [][SimulatorNext]_vars

\* the execution price as the claim states it
C23_Price(base, is_buy) ==
    IF is_buy
    THEN (base * (RateDen + simulator.slippage_rate + simulator.impact_cost_rate))
            \div RateDen
    ELSE Max(0, (base * (RateDen - simulator.slippage_rate - simulator.impact_cost_rate))
                    \div RateDen)

C23_Commission(quantity, price) ==
    (quantity * price * simulator.commission_rate) \div RateDen

\* the same simulator charging no commission
C23_Free == [simulator EXCEPT !.commission_rate = 0]

C23_Open ==
    /\ Called("execute_long") /\ last'.ok =>
        LET c == last'.args[1]
            q == last'.args[2]
            p == last'.args[3]
        IN /\ portfolio'.positions[c].entry_price = C23_Price(p, TRUE)
           /\ portfolio'.cash = execute_long(C23_Free, portfolio, c, q, p, clock).pf.cash
                                  - C23_Commission(q, C23_Price(p, TRUE))
           /\ simulator = ZeroRates =>
                /\ portfolio'.positions[c].entry_price = p
                /\ portfolio'.cash = add_position(portfolio, c, q, p, clock).pf.cash
    /\ Called("execute_short") /\ last'.ok =>
        LET c == last'.args[1]
            q == last'.args[2]
            p == last'.args[3]
        IN /\ portfolio'.positions[c].entry_price = C23_Price(p, FALSE)
           /\ portfolio'.cash = execute_short(C23_Free, portfolio, c, q, p, clock).pf.cash
                                  - C23_Commission(q, C23_Price(p, FALSE))
           /\ simulator = ZeroRates => portfolio'.positions[c].entry_price = p
    /\ Called("execute_pair_trade") /\ last'.ok =>
        LET a == last'.args
            pair == portfolio'.pair_positions[a[1]]
            free == execute_pair_trade(C23_Free, portfolio, a[1], a[2], a[3], a[4], a[5],
                                       a[6], a[7], clock, DefaultHedgeRatio)
        IN /\ pair.long_position.entry_price = C23_Price(a[6], TRUE)
           /\ pair.short_position.entry_price = C23_Price(a[7], FALSE)
           /\ portfolio'.cash = free.pf.cash
                                  - C23_Commission(a[4], C23_Price(a[6], TRUE))
                                  - C23_Commission(a[5], C23_Price(a[7], FALSE))
           /\ simulator = ZeroRates =>
                /\ pair.long_position.entry_price = a[6]
                /\ pair.short_position.entry_price = a[7]
                /\ portfolio'.cash = add_pair_position(portfolio, a[1], a[2], a[3], a[4],
                                        a[5], a[6], a[7], clock, DefaultHedgeRatio).pf.cash

C23_Close ==
    Called("close_pair_trade") /\ last'.ok =>
        LET a == last'.args
            pair == portfolio.pair_positions[a[1]]
            long_qty == pair.long_position.quantity
            short_qty == Abs(pair.short_position.quantity)
            sell == C23_Price(a[2], FALSE)
            buy == C23_Price(a[3], TRUE)
            commission == C23_Commission(long_qty, sell) + C23_Commission(short_qty, buy)
        IN /\ last'.ret.total_proceeds
                = long_qty * sell + short_qty * (pair.short_position.entry_price - buy)
           /\ last'.ret.commission = commission
           /\ portfolio'.cash
                = close_pair_trade(C23_Free, portfolio, a[1], a[2], a[3], clock).pf.cash
                    - commission
           /\ simulator = ZeroRates =>
                /\ last'.ret.commission = 0
                /\ portfolio'.cash
                    = close_pair_position(portfolio, a[1], a[2], a[3], clock).pf.cash

\* C23: every successful simulator open or close debits, for each leg traded,
\* a commission of trade value times commission rate, the trade value taken at
\* the execution price: base * (1 + slippage + impact) for a buy, base * (1 -
\* slippage - impact) floored at 0 for a sell; a pair pays for both legs on
\* open and on close. With all three rates zero the execution price is the base
\* price and no commission is charged.
C23_CommissionPerLeg == [][C23_Open /\ C23_Close]_vars

\* C23 witness: a pair was closed for a commission while the cost rates put the
\* sell price at the floor
C23_Witness ==
    /\ last.op = "close_pair_trade" /\ last.ok
    /\ last.ret.commission > 0
    /\ simulator.slippage_rate + simulator.impact_cost_rate > RateDen
    /\ last.ret.total_proceeds < 0

----------------------------------------------------------------------------
(* portfolio.py: the trade record of close_position                        *)

\* the fraction f equals num / den; every amount is a multiple of 1000, and
\* the cross products are taken on the thousands
C24_SameFraction(f, num, den) ==
    (f.num \div 1000) * (den \div 1000) = (num \div 1000) * (f.den \div 1000)

\* C24: the trade record appended by close_position is consistent for every
\* closing price: its pnl is quantity * (exit price - entry price) and its pnl
\* percentage is that pnl over the entry cost times 100, both from the exit
\* price of the same record, whether or not update_prices came before.
C24_TradeRecordConsistent ==
    \A i \in 1..Len(portfolio.trades) :
        LET trade == portfolio.trades[i] IN
        "stock_code" \in DOMAIN trade =>
            LET cost == trade.quantity * trade.entry_price
                pnl == trade.quantity * (trade.exit_price - trade.entry_price)
            IN /\ trade.pnl = pnl
               /\ cost # 0 => C24_SameFraction(trade.pnl_pct, pnl * 100, cost)

----------------------------------------------------------------------------
(* simulator.py: the cash a short sale takes                               *)

C26_Step ==
    Called("execute_short") /\ last'.ok =>
        LET q == last'.args[2]
            execution_price == calculate_execution_price(simulator, last'.args[3], q, FALSE)
            margin_required == q * execution_price
                                + calculate_commission(simulator, q * execution_price)
        IN portfolio'.cash = portfolio.cash - margin_required

\* C26: a successful execute_short debits cash exactly once, by exactly the
\* margin it checked (trade value at the sell-side execution price plus
\* commission): the cash after the call is the cash before minus that margin.
C26_MarginDebitedOnce == [][C26_Step]_vars

----------------------------------------------------------------------------
(* portfolio.py: a pair opened and closed at the same prices               *)

\* the open just made is closed next, at the prices it was opened at
C27_ClosedAtOnce(close(_, _, _, _, _)) ==
    close(portfolio', last'.args[1], last'.args[6], last'.args[7], clock')

C27_Restored(closed) ==
    /\ closed.ok
    /\ closed.ret.pnl = 0
    /\ closed.pf.cash = portfolio.cash
    /\ total_value(closed.pf) = total_value(portfolio)

C27_ZeroRateClose(pf, pair_id, long_price, short_price, date) ==
    close_pair_trade(ZeroRates, pf, pair_id, long_price, short_price, date)

C27_Step ==
    /\ (/\ Called("add_pair_position") /\ last'.ok
        /\ last'.args[1] \notin DOMAIN portfolio.pair_positions)
            => C27_Restored(C27_ClosedAtOnce(close_pair_position))
    /\ (/\ Called("execute_pair_trade") /\ last'.ok /\ simulator = ZeroRates
        /\ last'.args[1] \notin DOMAIN portfolio.pair_positions)
            => C27_Restored(C27_ClosedAtOnce(C27_ZeroRateClose))

\* C27: with zero cost rates, opening a pair and closing it at the same long and
\* short prices with no operation in between is a round trip: cash and
\* total_value are what they were before the open and the trade's pnl is 0.
C27_PairRoundTrip == [][C27_Step]_vars

----------------------------------------------------------------------------
(* portfolio.py, simulator.py: the value a long open leaves                *)

C28_Step ==
    (\/ Called("add_position") /\ last'.ok /\ last'.args[2] > 0
     \/ Called("execute_long") /\ last'.ok /\ simulator = ZeroRates)
        => total_value(portfolio') = total_value(portfolio)

\* C28: opening a long position conserves value: a successful add_position, or
\* execute_long with zero cost rates, leaves total_value unchanged at the moment
\* of the trade, also when the instrument already has an open position, whose
\* value is never dropped without being returned to cash.
C28_LongOpenConservesValue == [][C28_Step]_vars

----------------------------------------------------------------------------
(* services/signal_generator/monitor.py: SignalMonitor. start, stop and    *)
(* the loop task are coroutines of one event loop: a coroutine runs alone  *)
(* from one await that suspends it to the next, and _run_generation and    *)
(* run_once hold no await.                                                 *)

MaxCalls == 2                  \* calls of start, of stop and of run_once
MaxCycles == 2                 \* iterations of _run_loop, over all loop tasks
MaxSignalsSettings == {1, 2}   \* max_signals

\* SignalMonitor.__init__
SignalMonitor(max_signals, signal_generator) ==
    [max_signals |-> max_signals, generator |-> signal_generator,
     is_running |-> FALSE, _task |-> Nothing,
     \* the loop tasks ever created, by creation order: where each stands in
     \* _run_loop and whether a cancel request waits for it
     tasks |-> <<>>,
     \* the calls of stop that reached `await self._task`
     stops |-> <<>>,
     \* the task that runs a generation cycle (it holds the event loop)
     thread |-> Nothing,
     calls |-> [start |-> 0, stop |-> 0, run_once |-> 0],
     cycles |-> 0,
     \* every signal a batch of the generator returned, and the last step
     emitted |-> <<>>, last |-> "init"]

Done(task) == task.pc \in {"done", "cancelled"}

\* asyncio.create_task(self._run_loop())
create_task(tasks) == Append(tasks, [pc |-> "created", must_cancel |-> FALSE])

\* task.cancel(): the request is met at the await the task is suspended at;
\* nothing for a finished task
cancel(tasks, t) ==
    IF Done(tasks[t]) THEN tasks ELSE [tasks EXCEPT ![t].must_cancel = TRUE]

\* mutant: start does not look at is_running
start_unguarded(m) ==
    [m EXCEPT !.is_running = TRUE,
              !.tasks = create_task(@),
              !._task = Some(Len(m.tasks) + 1)]

start(m) ==
    IF m.is_running THEN m
    ELSE [m EXCEPT !.is_running = TRUE,
                   !.tasks = create_task(@),
                   !._task = Some(Len(m.tasks) + 1)]

\* stop up to `await self._task`: the await suspends stop unless the task is over
stop(m) ==
    IF ~m.is_running THEN m
    ELSE IF m._task = Nothing THEN [m EXCEPT !.is_running = FALSE]
    ELSE LET t == m._task[1]
         IN [m EXCEPT !.is_running = FALSE,
                      !.tasks = cancel(@, t),
                      !.stops = Append(@, [awaits |-> t,
                                           pc |-> IF Done(m.tasks[t]) THEN "returned"
                                                  ELSE "awaiting"])]

\* _run_loop resumed at the await it is suspended at (its start included): a
\* cancel request raises CancelledError there, which the loop's `except
\* asyncio.CancelledError: break` catches only inside the try; otherwise the
\* sleep is over and `while self.is_running` is evaluated
_run_loop(m, t) ==
    LET task == m.tasks[t] IN
    IF task.must_cancel
    THEN [m EXCEPT !.tasks[t].pc = IF task.pc = "created" THEN "cancelled" ELSE "done",
                   !.tasks[t].must_cancel = FALSE]
    ELSE IF m.is_running
    THEN [m EXCEPT !.tasks[t].pc = "generation", !.thread = Some(t)]
    ELSE [m EXCEPT !.tasks[t].pc = "done"]

\* cursor.execute("SELECT COUNT(*) FROM <table> WHERE status = 'ACTIVE'"): the
\* schema of database/connection.py keeps the signals in pair_signals, and
\* sqlite3 raises OperationalError for a table the database does not have
count_active(db, table) ==
    IF table # "pair_signals" THEN Raise("OperationalError")
    ELSE Return(Len(SelectSeq(db.signals, LAMBDA row : row.status = "ACTIVE")))

\* PairSignal.to_dict: the row insert_signal writes
to_dict(signal) ==
    [pair_id |-> signal.pair_id, stock_codes |-> signal.stock_codes,
     signal_type |-> signal.signal_type.name, status |-> signal.status]

save_signals(db, signals) ==
    [db EXCEPT !.signals = @ \o [i \in 1..Len(signals) |-> to_dict(signals[i])]]

RECURSIVE ExtendAll(_, _, _)
ExtendAll(gen, db, active_pairs) ==
    IF active_pairs = <<>> THEN <<>>
    ELSE generate_signals_for_pair(gen, db, Head(active_pairs)).signals
            \o ExtendAll(gen, db, Tail(active_pairs))

generate_signals_for_all_pairs(gen, db) == ExtendAll(gen, db, get_active_pairs(db))

\* what a cycle leaves: the database, the batch the generator returned (empty
\* when it was not called) and the exception the cycle caught and printed
Cycle(db, signals, caught) == [db |-> db, signals |-> signals, caught |-> caught]

\* the pair has a cointegration row, a full window of closes and an entry
\* condition on its spread
EntryDetected(gen, db, pair) ==
    LET cointegration == get_latest_result(db, pair.pair_id)
        price_data == _fetch_price_data(gen, db, pair.stock_codes)
    IN /\ cointegration # Nothing
       /\ price_data # <<>>
       /\ LET spread == _calculate_spread(price_data, cointegration[1].hedge_ratios)
          IN /\ spread.exc = None
             /\ Len(spread.value) >= gen.lookback_period
             /\ detect_entry_signal(gen.analyzer, spread.value, Nothing) # None

\* variant: the cycle reads the count from pair_signals and stores an entry
\* signal for every pair whose entry condition is detected
_run_generation_storing(m, db) ==
    LET active_count == count_active(db, "pair_signals").value
        detected == SelectSeq(get_active_pairs(db),
                              LAMBDA pair : EntryDetected(m.generator, db, pair))
        signals == [i \in 1..Len(detected) |->
                        PairSignal(detected[i].pair_id, detected[i].stock_codes,
                                   SignalTypeMember("ENTRY_LONG").value, "ACTIVE", Zero, Zero)]
    IN IF active_count >= m.max_signals THEN Cycle(db, <<>>, None)
       ELSE Cycle(save_signals(db, signals), signals, None)

\* if signals: saved_count = self.generator.save_signals(conn, signals)
SaveIfAny(db, signals) ==
    IF signals # <<>> THEN Cycle(save_signals(db, signals), signals, None)
    ELSE Cycle(db, signals, None)

\* _run_generation: everything after the first print is inside try / except
\* Exception, which prints and returns
_run_generation(m, db) ==
    LET active_count == count_active(db, "signals")
    IN IF active_count.exc # None THEN Cycle(db, <<>>, active_count.exc)
       ELSE IF active_count.value >= m.max_signals THEN Cycle(db, <<>>, None)
       ELSE SaveIfAny(db, generate_signals_for_all_pairs(m.generator, db))

\* run_once: no count, the batch is saved as returned
SaveAll(db, signals) == Cycle(save_signals(db, signals), signals, None)
run_once(m, db) == SaveAll(db, generate_signals_for_all_pairs(m.generator, db))

----------------------------------------------------------------------------
(* The monitor specification: calls of start, stop and run_once in any     *)
(* order and the steps of the loop tasks, as the event loop may schedule   *)
(* them, over a database whose prices never change.                        *)

\* the pairs of the monitored databases: an entry condition (Z = 1.5), a stored
\* long entry whose exit condition holds
EntryCase == PairCase("ACTIVE", TRUE, <<1, 1, 1, 2>>, <<1, 1, 1, 1>>, <<>>)
StoredCase == PairCase("ACTIVE", TRUE, <<-1, 0, 0, 0>>, <<0, 0, 0, 0>>, <<"ENTRY_LONG">>)
MonitorDatabases ==
    {Database(cases) : cases \in {<<>>, <<EntryCase>>, <<EntryCase, EntryCase>>,
                                  <<StoredCase>>, <<StoredCase, EntryCase>>}}

ActiveCount(db) == Len(SelectSeq(db.signals, LAMBDA row : row.status = "ACTIVE"))

MonitorInit ==
    /\ portfolio = NewPortfolio(InitialCapital)
    /\ simulator = TradingSimulator(0, 0, 0)
    /\ clock = 0
    /\ last = NoCall
    /\ engine = EngineIdle
    /\ applied = <<>>
    /\ store = <<>>
    /\ given = <<>>
    /\ generator = GeneratorIdle
    /\ conn \in MonitorDatabases
    /\ \E max_signals \in MaxSignalsSettings, lookback_period \in Lookbacks :
          monitor = SignalMonitor(max_signals,
                        SignalGenerator(lookback_period, <<1, 1>>, <<1, 2>>, <<1, 5>>))
    /\ ActiveCount(conn) <= monitor.max_signals

MonitorFrame ==
    UNCHANGED <<portfolio, simulator, clock, last, engine, applied, store, generator, given>>

\* no generation cycle is under way: the event loop takes the next coroutine
Free == monitor.thread = Nothing

\* await monitor.start()
Start ==
    /\ Free
    /\ monitor.calls.start < MaxCalls
    /\ monitor' = [start(monitor) EXCEPT !.calls.start = @ + 1, !.last = "start"]
    /\ UNCHANGED conn
    /\ MonitorFrame

\* await monitor.stop(), up to its return or to `await self._task`
Stop ==
    /\ Free
    /\ monitor.calls.stop < MaxCalls
    /\ monitor' = [stop(monitor) EXCEPT !.calls.stop = @ + 1, !.last = "stop"]
    /\ UNCHANGED conn
    /\ MonitorFrame

\* the awaited task is over: stop passes `except asyncio.CancelledError` and returns
StopReturn ==
    /\ Free
    /\ \E i \in DOMAIN monitor.stops :
          /\ monitor.stops[i].pc = "awaiting"
          /\ Done(monitor.tasks[monitor.stops[i].awaits])
          /\ monitor' = [monitor EXCEPT !.stops[i].pc = "returned", !.last = "stop_return"]
    /\ UNCHANGED conn
    /\ MonitorFrame

\* a loop task is resumed where it is suspended: at its start or in asyncio.sleep
RunLoop ==
    /\ Free
    /\ \E t \in DOMAIN monitor.tasks :
          /\ monitor.tasks[t].pc \in {"created", "sleep"}
          /\ monitor.tasks[t].must_cancel \/ monitor.cycles < MaxCycles
          /\ monitor' = [_run_loop(monitor, t) EXCEPT !.last = "_run_loop"]
    /\ UNCHANGED conn
    /\ MonitorFrame

\* what a cycle leaves: the database as it wrote it, and its batch noted
Leaves(cycle, m) ==
    /\ conn' = cycle.db
    /\ monitor' = [m EXCEPT !.emitted = @ \o cycle.signals]

\* await self._run_generation(), then await asyncio.sleep(self.interval)
RunGeneration ==
    /\ monitor.thread # Nothing
    /\ Leaves(_run_generation(monitor, conn),
              [monitor EXCEPT !.tasks[monitor.thread[1]].pc = "sleep",
                              !.thread = Nothing,
                              !.cycles = @ + 1,
                              !.last = "_run_generation"])
    /\ MonitorFrame

\* monitor.run_once()
RunOnce ==
    /\ Free
    /\ monitor.calls.run_once < MaxCalls
    /\ Leaves(run_once(monitor, conn),
              [monitor EXCEPT !.calls.run_once = @ + 1, !.last = "run_once"])
    /\ MonitorFrame

MonitorNext ==
    \/ Start
    \/ Stop
    \/ StopReturn
    \/ RunLoop
    \/ RunGeneration
    \/ RunOnce

MonitorSpec == MonitorInit /\ [][MonitorNext]_vars

----------------------------------------------------------------------------
(* Claims about SignalMonitor *)

InCycle(m) == {t \in DOMAIN m.tasks : m.tasks[t].pc = "generation"}
Live(m) == {t \in DOMAIN m.tasks : ~Done(m.tasks[t])}

C25_Inv ==
    \* no two cycles overlap, and the task in a cycle is the one that runs
    /\ Cardinality(InCycle(monitor)) <= 1
    /\ \A t \in DOMAIN monitor.tasks : t \in InCycle(monitor) <=> monitor.thread = Some(t)
    \* one loop at most is left to run; it is the task of the running monitor
    /\ \A t \in Live(monitor) :
          ~monitor.tasks[t].must_cancel => monitor.is_running /\ monitor._task = Some(t)
    \* stop returns when the loop it cancelled is over
    /\ \A i \in DOMAIN monitor.stops :
          monitor.stops[i].pc = "returned" => Done(monitor.tasks[monitor.stops[i].awaits])

C25_Step ==
    /\ \A t \in DOMAIN monitor.tasks :
          \* a cycle under way runs to its end: stop takes no step in the middle
          /\ t \in InCycle(monitor) =>
                /\ monitor'.tasks[t].pc \in {"generation", "sleep"}
                /\ ~monitor'.tasks[t].must_cancel
                /\ monitor'.is_running = monitor.is_running
                /\ monitor'.stops = monitor.stops
          \* the loop ends only between iterations
          /\ (Done(monitor'.tasks[t]) /\ ~Done(monitor.tasks[t])) =>
                monitor.tasks[t].pc \in {"created", "sleep"}
          \* a cycle begins only in the loop of a running monitor
          /\ (t \in InCycle(monitor') /\ t \notin InCycle(monitor)) =>
                monitor.is_running /\ monitor._task = Some(t)
    \* start on a running monitor creates no loop
    /\ (monitor'.calls.start # monitor.calls.start /\ monitor.is_running) =>
          monitor'.tasks = monitor.tasks /\ monitor'._task = monitor._task
    \* once stopped, no cycle begins before the next start
    /\ (~monitor.is_running /\ monitor'.calls.start = monitor.calls.start) =>
          InCycle(monitor') = {}

\* C25: cancellation of the SignalMonitor is cooperative: under any interleaving
\* of start() and stop(), stop() never aborts a generation cycle in the middle
\* (the loop ends only between iterations, during the wait), no two cycles
\* overlap, a second start() while running creates no second loop, and after
\* stop() no further cycle runs until start() is called again.
C25_CooperativeCancellation == []C25_Inv /\ [][C25_Step]_vars

\* C25 witness: the loop of the first start ran a cycle and was ended by a stop
\* that returned; a second start was refused or made the loop that now runs a cycle
C25_Witness ==
    /\ Len(monitor.tasks) = 2
    /\ monitor.tasks[1].pc = "done"
    /\ monitor.tasks[2].pc = "generation"
    /\ \E i \in DOMAIN monitor.stops : monitor.stops[i].pc = "returned"
    /\ monitor.cycles >= 1

C29_EntryTypes == {"ENTRY_LONG", "ENTRY_SHORT", "PAIR_ENTRY_LONG", "PAIR_ENTRY_SHORT"}
C29_ExitTypes == {"EXIT_LONG", "EXIT_SHORT", "PAIR_EXIT"}
C29_Emitted(pair_id, types) ==
    Len(SelectSeq(monitor.emitted,
                  LAMBDA signal : signal.pair_id = pair_id /\ signal.signal_type.name \in types))
C29_ActiveEntries(pair_id) ==
    Len(SelectSeq(conn.signals,
                  LAMBDA row : /\ row.pair_id = pair_id /\ row.status = "ACTIVE"
                               /\ row.signal_type \in C29_EntryTypes))

====
